---- MODULE Spec2Model ----
(***************************************************************************)
(* Model of the playback controller of openreader (the useAudioManager     *)
(* hook, src/unnamed/part_000) together with the page state it is wired to *)
(* (src/app/page.tsx) and the HTMLAudioElement it drives.                  *)
(*                                                                         *)
(* React semantics that the model keeps:                                   *)
(*  - every callback reads the values of the render that created it: an    *)
(*    asynchronous operation in flight (loadChunk and the analysis it      *)
(*    starts) carries the chunks, playbackState, currentChunkIndex and     *)
(*    provider of the render in which it was called;                       *)
(*  - refs (audioUrlsRef, hasPreloadedRef, chunksLengthRef) and the audio  *)
(*    element are read live;                                               *)
(*  - chunk objects have an identity (oid): [...chunks] copies references, *)
(*    {...chunk} creates a new object, and updateChunkTimings assigns      *)
(*    chunk.words / chunk.duration on the object of its closure, which     *)
(*    every array holding that object sees;                                *)
(*  - after a handler has run, the component re-renders and the effects    *)
(*    whose dependencies changed run, in the order of their definition.    *)
(* Times are in units of 100 ms.                                           *)
(***************************************************************************)
EXTENDS Integers, FiniteSets, Sequences, TLC

\* ---------------------------------------------------------------- bounds
MaxChunks == 2          \* chunks of the text entered
MaxLoads == 2           \* synthesis requests issued in one session
WordsPerChunk == 2      \* words of every chunk of the modelled texts
AudioLen == 6           \* real length of every synthesized clip
MaxTick == 3            \* last position a timeupdate is modelled for
Speeds == {1, 2}        \* speed multipliers offered to setSpeed

\* ------------------------------------------------------------- constants
NoUrl == 0              \* audioUrl: null / absent key of audioUrlsRef
LOOKAHEAD == 1          \* LOOKAHEAD_MS = 100
EstWord == 4            \* estimate of chunkText for one of two equal words
States == {"idle", "loading", "playing", "paused", "ended"}
Providers == {"elevenlabs", "slng"}

Min(a, b) == IF a < b THEN a ELSE b

Length(f) == Cardinality(DOMAIN f)

\* word timings an acoustic analysis (alignSegmentsToWords) can deliver for
\* a chunk of WordsPerChunk words: one {start, end} entry per word
AnalysisTables ==
  { [j \in 0..(WordsPerChunk - 1) |-> [start |-> 3 * j, end |-> 3 * j + 3]] }

VARIABLES
  chunks,             \* page.tsx: const [chunks, setChunks]
  provider,           \* page.tsx: const [provider, setProvider]
  playbackState,      \* useState<PlaybackState>('idle')
  currentChunkIndex,  \* useState(0)
  currentWordIndex,   \* useState(0)
  playbackSpeed,      \* useState(1)
  audio,              \* audioRef.current: src, currentTime, paused, playbackRate
  audioUrlsRef,       \* Map<number, string>
  hasPreloadedRef,
  chunksLengthRef,
  listener,           \* values captured by the registered audio listeners
  pending,            \* asynchronous operations in flight, with their closure
  cache,              \* localStorage entries of the analysis cache
  nextOid,            \* next chunk object identity
  nextUrl,            \* next object URL / request number
  last,               \* the event handled last, with its input (history)
  call,               \* a call of a text utility: its arguments and its result
  queue               \* the AudioQueue object, its context and its source nodes

vars == <<chunks, provider, playbackState, currentChunkIndex, currentWordIndex,
          playbackSpeed, audio, audioUrlsRef, hasPreloadedRef, chunksLengthRef,
          listener, pending, cache, nextOid, nextUrl, last, call, queue>>

\* the whole state as one record; dirty = setChunks was called since the
\* last render (a new array identity, whatever its content)
Cur ==
  [chunks |-> chunks, provider |-> provider, playbackState |-> playbackState,
   currentChunkIndex |-> currentChunkIndex, currentWordIndex |-> currentWordIndex,
   playbackSpeed |-> playbackSpeed, audio |-> audio, audioUrlsRef |-> audioUrlsRef,
   hasPreloadedRef |-> hasPreloadedRef, chunksLengthRef |-> chunksLengthRef,
   listener |-> listener, pending |-> pending, cache |-> cache,
   nextOid |-> nextOid, nextUrl |-> nextUrl, dirty |-> FALSE]

\* from: the playbackState in which the event arrived
Event(op, arg, ok) == [op |-> op, arg |-> arg, ok |-> ok, from |-> playbackState]

Commit(r, ev) ==
  /\ last' = ev
  /\ chunks' = r.chunks
  /\ provider' = r.provider
  /\ playbackState' = r.playbackState
  /\ currentChunkIndex' = r.currentChunkIndex
  /\ currentWordIndex' = r.currentWordIndex
  /\ playbackSpeed' = r.playbackSpeed
  /\ audio' = r.audio
  /\ audioUrlsRef' = r.audioUrlsRef
  /\ hasPreloadedRef' = r.hasPreloadedRef
  /\ chunksLengthRef' = r.chunksLengthRef
  /\ listener' = r.listener
  /\ pending' = r.pending
  /\ cache' = r.cache
  /\ nextOid' = r.nextOid
  /\ nextUrl' = r.nextUrl
  /\ call' = call
  /\ queue' = queue

\* ------------------------------------------------------------ the chunker
\* chunkText for a text of n * WordsPerChunk words of equal weight: every
\* chunk gets the estimate (words / 150) * 60 s, split evenly
chunkText(n, textId, oid0) ==
  [k \in 0..(n - 1) |->
    [oid |-> oid0 + k,
     id |-> k,
     text |-> <<textId, k>>,
     words |-> [j \in 0..(WordsPerChunk - 1) |->
                 [text |-> <<textId, k, j>>,
                  startTime |-> j * EstWord,
                  endTime |-> (j + 1) * EstWord,
                  index |-> k * WordsPerChunk + j]],
     audioUrl |-> NoUrl,
     duration |-> WordsPerChunk * EstWord,
     isLoading |-> FALSE,
     error |-> FALSE]]

\* ------------------------------------------------------ the audio element
\* The HTMLAudioElement, as far as the controller uses it:
\*   src, currentTime, paused, playbackRate;
\*   ready   the metadata of src is loaded (readyState > HAVE_NOTHING);
\*   startAt the default playback start position: a currentTime assigned
\*           while nothing is loaded, applied when the metadata arrives.

\* audio.src = url runs the media element load algorithm: playback stops, a
\* play() promise still pending is rejected (AbortError), the position
\* returns to 0 and playbackRate to defaultPlaybackRate
SetSrc(a, url) ==
  [a EXCEPT !.src = url, !.currentTime = 0, !.paused = TRUE, !.ready = FALSE,
            !.playbackRate = 1]

\* audio.currentTime = t
SetCurrentTime(a, t) ==
  IF a.ready THEN [a EXCEPT !.currentTime = Min(t, AudioLen)]
             ELSE [a EXCEPT !.startAt = t]

\* audio.play(): ok is the device's decision; a refused play() leaves the
\* element as it is and rejects the promise
AudioPlay(a, ok) == IF ok THEN [a EXCEPT !.paused = FALSE] ELSE a

\* audio.pause()
AudioPause(a) == [a EXCEPT !.paused = TRUE]

\* the object URL of src is an in-memory blob: its metadata is there before
\* the next event is handled
MediaLoaded(a) ==
  IF a.src # NoUrl /\ ~a.ready
  THEN [a EXCEPT !.ready = TRUE, !.currentTime = Min(a.startAt, AudioLen),
                 !.startAt = 0]
  ELSE a

\* ------------------------------------------------------------ React state
setChunks(r, c) == [r EXCEPT !.chunks = c, !.dirty = TRUE]

Closure(r) ==
  [chunks |-> r.chunks, playbackState |-> r.playbackState,
   currentChunkIndex |-> r.currentChunkIndex, provider |-> r.provider]

\* the start of loadChunk, up to the await of fetch('/api/tts'); cl is the
\* closure of the loadChunk that is called
loadChunkStart(r, cl, chunkIndex, shouldAutoPlay) ==
  IF \/ chunkIndex \notin DOMAIN cl.chunks
     \/ cl.chunks[chunkIndex].audioUrl # NoUrl
     \/ cl.chunks[chunkIndex].isLoading
     \/ r.audioUrlsRef[chunkIndex] # NoUrl
  THEN r
  ELSE LET marked ==
             IF cl.playbackState # "playing"
             THEN [setChunks(r, [cl.chunks EXCEPT ![chunkIndex] =
                                  [@ EXCEPT !.isLoading = TRUE, !.oid = r.nextOid]])
                    EXCEPT !.nextOid = @ + 1]
             ELSE r
       IN [marked EXCEPT
             !.pending = @ \cup {[id |-> r.nextUrl, phase |-> "tts",
                                  chunkIndex |-> chunkIndex,
                                  shouldAutoPlay |-> shouldAutoPlay,
                                  cl |-> cl]},
             !.nextUrl = @ + 1]

\* ---------------------------------------------------------------- effects
\* An effect compares the dependencies of the render cur with those of the
\* previous render prev (d: the chunks array was set since then), reads
\* React state from cur, and reads and writes refs, the audio element and
\* the state setters in acc.

\* registration of the audio listeners, deps [chunks, currentChunkIndex,
\* playbackState, onChunksUpdate]: handleEnded and handleTimeUpdate keep the
\* playbackSpeed and currentWordIndex of the render that registered them
ListenerEffect(prev, cur, d, acc) ==
  IF d \/ cur.currentChunkIndex # prev.currentChunkIndex
       \/ cur.playbackState # prev.playbackState
  THEN [acc EXCEPT !.listener = [playbackSpeed |-> cur.playbackSpeed,
                                 currentWordIndex |-> cur.currentWordIndex]]
  ELSE acc

\* deps [playbackSpeed]
SpeedEffect(prev, cur, acc) ==
  IF cur.playbackSpeed # prev.playbackSpeed
  THEN [acc EXCEPT !.audio.playbackRate = cur.playbackSpeed]
  ELSE acc

\* mutant: the load-and-play effect without the catch of its play()
LoadAndPlayEffect_NoCatch(prev, cur, d, acc, ok) ==
  IF /\ \/ d
        \/ cur.currentChunkIndex # prev.currentChunkIndex
        \/ cur.playbackState # prev.playbackState
        \/ cur.playbackSpeed # prev.playbackSpeed
     /\ cur.currentChunkIndex \in DOMAIN cur.chunks
     /\ cur.chunks[cur.currentChunkIndex].audioUrl # NoUrl
     /\ cur.playbackState = "playing"
  THEN LET newSrc == cur.chunks[cur.currentChunkIndex].audioUrl IN
       IF acc.audio.src # newSrc
       THEN [acc EXCEPT
              !.audio = AudioPlay([SetSrc(@, newSrc) EXCEPT
                                     !.playbackRate = cur.playbackSpeed], ok)]
       ELSE IF acc.audio.paused
       THEN [acc EXCEPT !.audio = AudioPlay(@, ok)]
       ELSE acc
  ELSE acc

\* "Load and play current chunk", deps [currentChunkIndex, playbackState,
\* playbackSpeed, chunks]; a rejected play() sets 'paused'
LoadAndPlayEffect(prev, cur, d, acc, ok) ==
  IF /\ \/ d
        \/ cur.currentChunkIndex # prev.currentChunkIndex
        \/ cur.playbackState # prev.playbackState
        \/ cur.playbackSpeed # prev.playbackSpeed
     /\ cur.currentChunkIndex \in DOMAIN cur.chunks
     /\ cur.chunks[cur.currentChunkIndex].audioUrl # NoUrl
     /\ cur.playbackState = "playing"
  THEN LET newSrc == cur.chunks[cur.currentChunkIndex].audioUrl IN
       IF acc.audio.src # newSrc
       THEN [acc EXCEPT
              !.audio = AudioPlay([SetSrc(@, newSrc) EXCEPT
                                     !.playbackRate = cur.playbackSpeed], ok),
              !.playbackState = IF ok THEN @ ELSE "paused"]
       ELSE IF acc.audio.paused
       THEN [acc EXCEPT !.audio = AudioPlay(@, ok),
                        !.playbackState = IF ok THEN @ ELSE "paused"]
       ELSE acc
  ELSE acc

\* chunks.forEach of the preload effect: every call is the loadChunk of the
\* same render
RECURSIVE PreloadAll(_, _, _)
PreloadAll(acc, cl, index) ==
  IF index \notin DOMAIN cl.chunks THEN acc
  ELSE PreloadAll(IF cl.chunks[index].audioUrl = NoUrl /\ ~cl.chunks[index].isLoading
                  THEN loadChunkStart(acc, cl, index, FALSE)
                  ELSE acc,
                  cl, index + 1)

\* "Preload ALL chunks ONCE when idle", deps [chunks.length, playbackState]
PreloadEffect(prev, cur, acc) ==
  IF Length(cur.chunks) # Length(prev.chunks) \/ cur.playbackState # prev.playbackState
  THEN LET a1 == IF Length(cur.chunks) # acc.chunksLengthRef
                 THEN [acc EXCEPT !.hasPreloadedRef = FALSE,
                                  !.chunksLengthRef = Length(cur.chunks),
                                  !.audioUrlsRef = [i \in DOMAIN @ |-> NoUrl]]
                 ELSE acc
       IN IF cur.playbackState = "idle" /\ Length(cur.chunks) > 0 /\ ~a1.hasPreloadedRef
          THEN PreloadAll([a1 EXCEPT !.hasPreloadedRef = TRUE], Closure(cur), 0)
          ELSE a1
  ELSE acc

\* one render of the state cur that follows the render of prev: the effects
\* in the order of their definition
Render(prev, cur, ok) ==
  LET d  == cur.dirty
      a0 == [cur EXCEPT !.dirty = FALSE]
      e1 == ListenerEffect(prev, cur, d, a0)
      e2 == SpeedEffect(prev, cur, e1)
      e3 == LoadAndPlayEffect(prev, cur, d, e2, ok)
      e4 == PreloadEffect(prev, cur, e3)
  IN  e4

\* the renders that follow a handler: the state set by the effects of the
\* first render (setChunks of the preload, 'paused' of a rejected play())
\* is rendered in turn; its effects set no further state
Settle(prev, r, ok) ==
  [Render(r, Render(prev, r, ok), ok) EXCEPT !.dirty = FALSE]
\* A handler has run from prev to r1 (called: it called audio.play() and
\* handles the rejection by setting 'paused').  The component renders; the
\* promise of the handler's play() is rejected when the device refuses or
\* when an effect assigns another src before playback has started.
Finish(prev, r1, called, ok) ==
  LET r2 == Settle(prev, r1, ok)
      rejected == called /\ (~ok \/ r2.audio.src # r1.audio.src)
      r3 == IF rejected THEN [r2 EXCEPT !.playbackState = "paused"] ELSE r2
      r4 == Settle(r2, r3, ok)
  IN  [r4 EXCEPT !.audio = MediaLoaded(@)]

\* the playbackState values the component passes through in Finish
Trail(prev, r1, called, ok) ==
  LET r2 == Settle(prev, r1, ok)
      rejected == called /\ (~ok \/ r2.audio.src # r1.audio.src)
      r3 == IF rejected THEN [r2 EXCEPT !.playbackState = "paused"] ELSE r2
  IN  {r1.playbackState, Render(prev, r1, ok).playbackState, r2.playbackState,
       r3.playbackState, Render(r2, r3, ok).playbackState,
       Settle(r2, r3, ok).playbackState}

\* --------------------------------------------------------------- handlers
RefOrChunkUrl(r, i) ==
  IF r.audioUrlsRef[i] # NoUrl THEN r.audioUrlsRef[i] ELSE r.chunks[i].audioUrl

\* play(), the part before its first await; the result is <<state, called>>
play(r, ok) ==
  IF r.currentChunkIndex \notin DOMAIN r.chunks THEN <<r, FALSE>>
  ELSE LET audioUrl == RefOrChunkUrl(r, r.currentChunkIndex) IN
       IF audioUrl # NoUrl
       THEN <<[r EXCEPT !.audio = AudioPlay([SetSrc(@, audioUrl) EXCEPT
                                               !.playbackRate = r.playbackSpeed], ok),
                        !.playbackState = "playing"], TRUE>>
       ELSE IF ~r.chunks[r.currentChunkIndex].isLoading
       THEN <<loadChunkStart([r EXCEPT !.playbackState = "loading"], Closure(r),
                             r.currentChunkIndex, TRUE), FALSE>>
       ELSE <<r, FALSE>>

\* mutant: pause() that also rewinds the clip
pause_Rewinds(r) ==
  [r EXCEPT !.playbackState = "paused",
            !.audio = [AudioPause(@) EXCEPT !.currentTime = 0, !.startAt = 0]]

pause(r) == [r EXCEPT !.playbackState = "paused", !.audio = AudioPause(@)]

setSpeed(r, speed) == [r EXCEPT !.playbackSpeed = speed]

\* the chunk found by the scan of seekToWord, and the startTime of the word
TargetChunkIndex(cs, wordIndex) ==
  LET hits == {i \in DOMAIN cs :
                 /\ wordIndex >= cs[i].words[0].index
                 /\ wordIndex <= cs[i].words[Length(cs[i].words) - 1].index}
  IN  IF hits = {} THEN 0 ELSE CHOOSE i \in hits : \A k \in hits : i <= k

WordTimeInChunk(cs, wordIndex) ==
  LET hits == {i \in DOMAIN cs :
                 /\ wordIndex >= cs[i].words[0].index
                 /\ wordIndex <= cs[i].words[Length(cs[i].words) - 1].index}
      t == TargetChunkIndex(cs, wordIndex)
      ws == {j \in DOMAIN cs[t].words : cs[t].words[j].index = wordIndex}
  IN  IF hits = {} \/ ws = {} THEN 0
      ELSE cs[t].words[CHOOSE j \in ws : \A k \in ws : j <= k].startTime

\* mutant: seekToWord that records the word before it looks for the audio
seekToWord_MarksWord(r, wordIndex, ok) ==
  <<[r EXCEPT !.currentWordIndex = wordIndex], FALSE>>

seekToWord(r, wordIndex, ok) ==
  LET targetChunkIndex == TargetChunkIndex(r.chunks, wordIndex)
      wordTimeInChunk == WordTimeInChunk(r.chunks, wordIndex)
      audioUrl == IF targetChunkIndex \in DOMAIN r.chunks
                  THEN RefOrChunkUrl(r, targetChunkIndex) ELSE NoUrl
  IN  IF audioUrl # NoUrl
      THEN LET a1 == IF targetChunkIndex # r.currentChunkIndex
                     THEN [SetSrc(r.audio, audioUrl) EXCEPT
                             !.playbackRate = r.playbackSpeed]
                     ELSE r.audio
               a2 == SetCurrentTime(a1, wordTimeInChunk)
               starts == r.playbackState # "playing"
           IN <<[r EXCEPT !.audio = IF starts THEN AudioPlay(a2, ok) ELSE a2,
                          !.currentChunkIndex = targetChunkIndex,
                          !.currentWordIndex = wordIndex,
                          !.playbackState = IF starts THEN "playing" ELSE @],
                starts>>
      ELSE <<r, FALSE>>

\* getCurrentWordIndex: the binary search with its lookahead
RECURSIVE Search(_, _, _, _, _)
Search(words, adjustedTime, left, right, result) ==
  IF left > right THEN Min(result, Length(words) - 1)
  ELSE LET mid == (left + right) \div 2 IN
       IF adjustedTime >= words[mid].startTime /\ adjustedTime < words[mid].endTime
       THEN mid
       ELSE IF adjustedTime < words[mid].startTime
       THEN Search(words, adjustedTime, left, mid - 1, result)
       ELSE Search(words, adjustedTime, mid + 1, right, mid)

getCurrentWordIndex(words, currentTime) ==
  IF Length(words) = 0 THEN 0
  ELSE Search(words, currentTime + LOOKAHEAD, 0, Length(words) - 1, 0)

\* the 'timeupdate' listener
handleTimeUpdate(r) ==
  IF r.currentChunkIndex \in DOMAIN r.chunks
     /\ Length(r.chunks[r.currentChunkIndex].words) > 0
  THEN LET words == r.chunks[r.currentChunkIndex].words
           globalIndex == words[getCurrentWordIndex(words, r.audio.currentTime)].index
       IN IF globalIndex # r.listener.currentWordIndex
          THEN [r EXCEPT !.currentWordIndex = globalIndex]
          ELSE r
  ELSE r

\* mutant: 'ended' that stops at every chunk boundary
handleEnded_StopsAtBoundary(r, ok) ==
  IF r.currentChunkIndex < Length(r.chunks) - 1
  THEN <<[r EXCEPT !.playbackState = "paused"], FALSE>>
  ELSE <<[r EXCEPT !.playbackState = "ended", !.currentWordIndex = 0,
                   !.currentChunkIndex = 0], FALSE>>

\* mutant: 'ended' that treats a missing next chunk as the end of the text
handleEnded_EndsWhenMissing(r, ok) ==
  IF r.currentChunkIndex < Length(r.chunks) - 1
     /\ RefOrChunkUrl(r, r.currentChunkIndex + 1) # NoUrl
  THEN <<[r EXCEPT !.audio = AudioPlay([SetSrc(@, RefOrChunkUrl(r, r.currentChunkIndex + 1))
                              EXCEPT !.playbackRate = r.listener.playbackSpeed], ok),
                   !.currentChunkIndex = r.currentChunkIndex + 1], TRUE>>
  ELSE <<[r EXCEPT !.playbackState = "ended", !.currentWordIndex = 0,
                   !.currentChunkIndex = 0], FALSE>>

\* mutant: 'ended' that keeps currentChunkIndex at the end of the text
handleEnded_KeepsIndex(r, ok) ==
  IF r.currentChunkIndex < Length(r.chunks) - 1
  THEN IF RefOrChunkUrl(r, r.currentChunkIndex + 1) # NoUrl
       THEN <<[r EXCEPT !.audio = AudioPlay([SetSrc(@, RefOrChunkUrl(r, r.currentChunkIndex + 1))
                                   EXCEPT !.playbackRate = r.listener.playbackSpeed], ok),
                        !.currentChunkIndex = r.currentChunkIndex + 1], TRUE>>
       ELSE <<[r EXCEPT !.playbackState = "paused"], FALSE>>
  ELSE <<[r EXCEPT !.playbackState = "ended", !.currentWordIndex = 0], FALSE>>

\* the 'ended' listener; the result is <<state, called>>
handleEnded(r, ok) ==
  IF r.currentChunkIndex < Length(r.chunks) - 1
  THEN LET nextChunkIndex == r.currentChunkIndex + 1
           nextAudioUrl == RefOrChunkUrl(r, nextChunkIndex)
       IN IF nextAudioUrl # NoUrl
          THEN <<[r EXCEPT !.audio = AudioPlay([SetSrc(@, nextAudioUrl) EXCEPT
                                    !.playbackRate = r.listener.playbackSpeed], ok),
                           !.currentChunkIndex = nextChunkIndex], TRUE>>
          ELSE <<[r EXCEPT !.playbackState = "paused"], FALSE>>
  ELSE <<[r EXCEPT !.playbackState = "ended", !.currentWordIndex = 0,
                   !.currentChunkIndex = 0], FALSE>>
\* ------------------------------------------------- loadChunk, after await
\* {...chunk, audioUrl, isLoading: false} stored at chunkIndex of a copy of
\* the chunks of the closure; the ref is set; the array is handed to
\* onChunksUpdate unless the closure's playbackState is 'playing'
loadChunkLoaded(r, op) ==
  LET cl == op.cl
      audioUrl == op.id
      updatedChunk == [cl.chunks[op.chunkIndex] EXCEPT
                         !.audioUrl = audioUrl, !.isLoading = FALSE,
                         !.oid = r.nextOid]
      finalChunks == [cl.chunks EXCEPT ![op.chunkIndex] = updatedChunk]
      r1 == [r EXCEPT !.audioUrlsRef[op.chunkIndex] = audioUrl,
                      !.nextOid = @ + 1]
      r2 == IF cl.playbackState # "playing" THEN setChunks(r1, finalChunks) ELSE r1
      r3 == IF op.shouldAutoPlay /\ op.chunkIndex = cl.currentChunkIndex
            THEN [r2 EXCEPT !.playbackState = "playing"] ELSE r2
  IN  IF cl.provider = "slng" /\ cl.playbackState = "idle"
      THEN [r3 EXCEPT !.pending = (@ \ {op}) \cup {[op EXCEPT !.phase = "blob"]}]
      ELSE [r3 EXCEPT !.pending = @ \ {op}]

\* mutant: a catch block that records the error and leaves the chunk loading
loadChunkFailed_KeepsLoading(r, op) ==
  LET errorChunks == [op.cl.chunks EXCEPT ![op.chunkIndex] =
                        [@ EXCEPT !.isLoading = TRUE, !.error = TRUE,
                                  !.oid = r.nextOid]]
  IN  [setChunks(r, errorChunks) EXCEPT !.nextOid = @ + 1,
                                        !.pending = @ \ {op}]

\* the catch block of loadChunk
loadChunkFailed(r, op) ==
  LET errorChunks == [op.cl.chunks EXCEPT ![op.chunkIndex] =
                        [@ EXCEPT !.isLoading = FALSE, !.error = TRUE,
                                  !.oid = r.nextOid]]
  IN  [setChunks(r, errorChunks) EXCEPT !.nextOid = @ + 1,
                                        !.pending = @ \ {op}]

\* what the await of fetch('/api/tts') and the reading of the response give:
\*   "error"    the request fails or the status is not ok;
\*   "audio"    audio without alignment (always so for slng);
\*   "aligned"  ElevenLabs audio with character alignment.
\* convertCharacterTimingsToWords returns {text, start, end, confidence}
\* entries; loadChunk reads their startTime / endTime, which are undefined:
\* the words keep their times, duration becomes undefined and
\* updatedChunk.duration.toFixed(2) throws into the catch block
Outcomes(op) ==
  IF op.cl.provider = "elevenlabs" THEN {"error", "audio", "aligned"}
                                   ELSE {"error", "audio"}

loadChunkDone(r, op, outcome) ==
  IF outcome = "audio" THEN loadChunkLoaded(r, op) ELSE loadChunkFailed(r, op)

\* --------------------------------------------------------------- analysis
getAnalysisCacheKey(chunk) == <<chunk.id, chunk.text>>

\* the item of the key, or nothing when it is absent or when the storage
\* throws (readable is FALSE): the catch block returns null
getCachedAnalysisResults(r, key, readable) ==
  IF readable /\ key \in DOMAIN r.cache THEN r.cache[key] ELSE <<>>

\* setItem under the key; when the storage throws (writable is FALSE) the
\* catch block logs a warning and the store is as before
cacheAnalysisResults(r, key, results, writable) ==
  IF ~writable THEN r
  ELSE [r EXCEPT !.cache = [k \in DOMAIN @ \cup {key} |->
                              IF k = key THEN results ELSE @[k]]]

\* updateChunkTimings of the closure cl: the chunk object of the closure is
\* assigned new words and duration (every array that holds the object sees
\* them), and a copy of the closure's array is handed to onChunksUpdate
updateChunkTimings(r, cl, chunkIndex, wordTimings) ==
  IF cl.playbackState # "idle" /\ cl.playbackState # "paused" THEN r
  ELSE LET target == cl.chunks[chunkIndex].oid
           n == Length(wordTimings)
           upd(c) ==
             IF c.oid # target THEN c
             ELSE [c EXCEPT
                     !.words = [j \in DOMAIN c.words |->
                                 IF j \in DOMAIN wordTimings
                                 THEN [c.words[j] EXCEPT
                                         !.startTime = wordTimings[j].start,
                                         !.endTime = wordTimings[j].end]
                                 ELSE c.words[j]],
                     !.duration = IF n > 0 THEN wordTimings[n - 1].end ELSE @]
           mut(cs) == [i \in DOMAIN cs |-> upd(cs[i])]
           r1 == [r EXCEPT !.chunks = mut(@),
                           !.pending = {[p EXCEPT !.cl.chunks = mut(@)] : p \in @}]
       IN  setChunks(r1, mut(cl.chunks))

\* mutant: the segmenter runs without a look into the cache
analyzeStart_SkipsCache(r, op, readable) ==
  IF op.cl.playbackState = "playing" THEN [r EXCEPT !.pending = @ \ {op}]
  ELSE [r EXCEPT !.pending = (@ \ {op}) \cup {[op EXCEPT !.phase = "analysis"]}]

\* analyzeAudioForAccurateTiming up to its first await
analyzeStart(r, op, readable) ==
  LET cl == op.cl
      rest == [r EXCEPT !.pending = @ \ {op}]
      cacheKey == getAnalysisCacheKey(cl.chunks[op.chunkIndex])
      cached == getCachedAnalysisResults(r, cacheKey, readable)
  IN  IF cl.playbackState = "playing" THEN rest
      ELSE IF cached # <<>>
      THEN updateChunkTimings(rest, cl, op.chunkIndex, cached)
      ELSE [r EXCEPT !.pending = (@ \ {op}) \cup {[op EXCEPT !.phase = "analysis"]}]

\* analyzeAudioForAccurateTiming after analyzeAudioSegments: wordTimings is
\* <<>> when no segment was found or the analysis threw
analyzeDone(r, op, wordTimings, writable) ==
  LET cl == op.cl
      rest == [r EXCEPT !.pending = @ \ {[p EXCEPT !.phase = "analysis"] : p \in {op}}]
      cacheKey == getAnalysisCacheKey(cl.chunks[op.chunkIndex])
  IN  IF wordTimings = <<>> THEN rest
      ELSE updateChunkTimings(
             cacheAnalysisResults(rest, cacheKey, wordTimings, writable),
             cl, op.chunkIndex, wordTimings)

\* ------------------------------------------------------------------- page
\* handleTextChange for the text textId of n chunks
handleTextChangeTo(r, n, textId) ==
  [setChunks(r, chunkText(n, textId, r.nextOid)) EXCEPT !.nextOid = @ + n]

handleTextChange(r, n) == handleTextChangeTo(r, n, 1)

handleProviderChange(r, newProvider) ==
  LET r1 == [r EXCEPT !.provider = newProvider] IN
  IF Length(r.chunks) > 0
  THEN [setChunks(r1, [i \in DOMAIN r.chunks |->
                        [r.chunks[i] EXCEPT !.audioUrl = NoUrl, !.isLoading = FALSE,
                                            !.oid = r.nextOid + i]])
         EXCEPT !.nextOid = @ + Length(r.chunks)]
  ELSE r1

\* ------------------------------------------------- bounds of the utilities
Mantissa == 10       \* significant bits of a number (53 in the code)
MaxText == 4         \* characters of an enumerated text
MaxPerChunk == 3     \* largest enumerated wordsPerChunk
MaxWords == 3        \* words of an enumerated word list

\* ========================================================= text utilities
\* The pure functions of text-utils.ts.  A string is a sequence of one-
\* character strings; arrays are sequences, their elements numbered from 1
\* here and from 0 in the code (the index field of a word keeps the code's
\* numbering).

\* --------------------------------------------------------------- numbers
\* A JavaScript number is a binary floating-point value: every arithmetic
\* result is rounded to the nearest value with Mantissa significant bits
\* (53 in the code), ties to even.  A number is [m, e], standing for
\* m * 2^e with 2^(Mantissa-1) <= m < 2^Mantissa, or m = 0.
RECURSIVE Pow2(_)
Pow2(k) == IF k <= 0 THEN 1 ELSE 2 * Pow2(k - 1)

Zero == [m |-> 0, e |-> 0]

\* the number nearest to (n / d) * 2^e, for n >= 0 and d > 0
RECURSIVE RoundRat(_, _, _)
RoundRat(n, d, e) ==
  IF n = 0 THEN Zero
  ELSE IF n < d * Pow2(Mantissa - 1) THEN RoundRat(2 * n, d, e - 1)
  ELSE IF n >= d * Pow2(Mantissa) THEN RoundRat(n, 2 * d, e + 1)
  ELSE LET q == n \div d
           r == n % d
           up == 2 * r > d \/ (2 * r = d /\ q % 2 = 1)
           m == IF up THEN q + 1 ELSE q
       IN  IF m = Pow2(Mantissa) THEN [m |-> Pow2(Mantissa - 1), e |-> e + 1]
           ELSE [m |-> m, e |-> e]

\* a decimal literal with one digit after the point, given in tenths
FromTenths(t) == RoundRat(t, 10, 0)

FromInt(k) == RoundRat(k, 1, 0)

FAdd(a, b) ==
  IF a.m = 0 THEN b
  ELSE IF b.m = 0 THEN a
  ELSE LET e == Min(a.e, b.e) IN
       RoundRat(a.m * Pow2(a.e - e) + b.m * Pow2(b.e - e), 1, e)

FMul(a, b) == RoundRat(a.m * b.m, 1, a.e + b.e)

FDiv(a, b) == RoundRat(a.m, b.m, a.e - b.e)

\* a = b, a <= b as numbers (the representation is unique)
FLeq(a, b) ==
  LET e == Min(a.e, b.e) IN a.m * Pow2(a.e - e) <= b.m * Pow2(b.e - e)

\* --------------------------------------------------------------- strings
IsSpace(c) == c = " "

Lower(c) == CASE c = "H" -> "h" [] c = "G" -> "g" [] c = "A" -> "a" [] OTHER -> c

toLowerCase(s) == [i \in 1..Len(s) |-> Lower(s[i])]

RECURSIVE trimStart(_)
trimStart(s) ==
  IF s # <<>> /\ IsSpace(Head(s)) THEN trimStart(Tail(s)) ELSE s

RECURSIVE trimEnd(_)
trimEnd(s) ==
  IF s # <<>> /\ IsSpace(s[Len(s)]) THEN trimEnd(SubSeq(s, 1, Len(s) - 1)) ELSE s

trim(s) == trimEnd(trimStart(s))

\* s.split(/\s+/): the pieces between the runs of whitespace; the empty
\* string gives one empty piece
RECURSIVE SplitFrom(_, _, _)
SplitFrom(s, piece, done) ==
  IF s = <<>> THEN Append(done, piece)
  ELSE IF IsSpace(Head(s))
  THEN SplitFrom(trimStart(s), <<>>, Append(done, piece))
  ELSE SplitFrom(Tail(s), Append(piece, Head(s)), done)

split(s) == SplitFrom(s, <<>>, <<>>)

\* chunkWords.join(' ')
RECURSIVE join(_)
join(ws) ==
  IF ws = <<>> THEN <<>>
  ELSE IF Len(ws) = 1 THEN ws[1]
  ELSE ws[1] \o <<" ">> \o join(Tail(ws))

\* ---------------------------------------------------------------- weights
Vowels == {"a", "e", "i", "o", "u", "y"}

Punctuation == {".", ",", "!", "?", ";", ":"}

\* word.replace(/(?:[^laeiouy]es|ed|[^laeiouy]e)$/, '')
StripEnding(w) ==
  LET n == Len(w) IN
  IF n >= 3 /\ w[n - 2] \notin Vowels \cup {"l"} /\ w[n - 1] = "e" /\ w[n] = "s"
  THEN SubSeq(w, 1, n - 3)
  ELSE IF n >= 2 /\ w[n - 1] = "e" /\ w[n] = "d"
  THEN SubSeq(w, 1, n - 2)
  ELSE IF n >= 2 /\ w[n - 1] \notin Vowels \cup {"l"} /\ w[n] = "e"
  THEN SubSeq(w, 1, n - 2)
  ELSE w

\* the number of matches of /[aeiouy]{1,2}/g
RECURSIVE VowelGroups(_)
VowelGroups(w) ==
  IF w = <<>> THEN 0
  ELSE IF Head(w) \notin Vowels THEN VowelGroups(Tail(w))
  ELSE IF Len(w) >= 2 /\ w[2] \in Vowels THEN 1 + VowelGroups(Tail(Tail(w)))
  ELSE 1 + VowelGroups(Tail(w))

countSyllables(word0) ==
  LET word == toLowerCase(trim(word0)) IN
  IF Len(word) = 0 THEN 0
  ELSE IF Len(word) <= 2 THEN 1
  ELSE LET w1 == StripEnding(word)
           w2 == IF w1 # <<>> /\ Head(w1) = "y" THEN Tail(w1) ELSE w1
           syllableCount == VowelGroups(w2)
       IN  IF syllableCount < 1 THEN 1 ELSE syllableCount

\* a weight that leaves the pause after punctuation out
getWordWeight_NoPause(word) ==
  LET cleanWord == SelectSeq(word, LAMBDA c : c \notin Punctuation)
      sum == 10 * countSyllables(cleanWord)
               + (IF Len(cleanWord) > 10 THEN 5 ELSE 0)
               + (IF Len(cleanWord) <= 2 THEN -2 ELSE 0) + 5
  IN  IF sum < 3 THEN 3 ELSE sum

\* mutant: a weight without the base time of half a syllable
getWordWeight_NoBase(word) ==
  LET cleanWord == SelectSeq(word, LAMBDA c : c \notin Punctuation)
      syllables == countSyllables(cleanWord)
      lastChar == IF word = <<>> THEN "" ELSE word[Len(word)]
      pauseWeight == IF lastChar \in {".", "!", "?"} THEN 30
                     ELSE IF lastChar \in {";", ":"} THEN 20
                     ELSE IF lastChar \in Punctuation THEN 15
                     ELSE 0
      lengthBonus == IF Len(cleanWord) > 10 THEN 5 ELSE 0
      shortPenalty == IF Len(cleanWord) <= 2 THEN -2 ELSE 0
      sum == 10 * syllables + pauseWeight + lengthBonus + shortPenalty
  IN  IF sum < 3 THEN 3 ELSE sum

\* getWordWeight in tenths: every term of the sum is a multiple of 0.1
getWordWeight(word) ==
  LET cleanWord == SelectSeq(word, LAMBDA c : c \notin Punctuation)
      syllables == countSyllables(cleanWord)
      lastChar == IF word = <<>> THEN "" ELSE word[Len(word)]
      pauseWeight == IF lastChar \in {".", "!", "?"} THEN 30
                     ELSE IF lastChar \in {";", ":"} THEN 20
                     ELSE IF lastChar \in Punctuation THEN 15
                     ELSE 0
      lengthBonus == IF Len(cleanWord) > 10 THEN 5 ELSE 0
      shortPenalty == IF Len(cleanWord) <= 2 THEN -2 ELSE 0
      sum == 10 * syllables + pauseWeight + lengthBonus + shortPenalty + 5
  IN  IF sum < 3 THEN 3 ELSE sum

\* -------------------------------------------------------------- timestamps
RECURSIVE Sum(_, _)
Sum(ws, acc) == IF ws = <<>> THEN acc ELSE Sum(Tail(ws), FAdd(acc, Head(ws)))

\* words.map with the running currentTime
RECURSIVE Spans(_, _, _, _, _, _)
Spans(words, weights, totalWeight, duration, index, currentTime) ==
  IF index > Len(words) THEN <<>>
  ELSE LET wordDuration == FMul(FDiv(weights[index], totalWeight), duration)
           startTime == currentTime
           endTime == FAdd(currentTime, wordDuration)
       IN  <<[text |-> words[index], startTime |-> startTime,
              endTime |-> endTime, index |-> index - 1]>>
           \o Spans(words, weights, totalWeight, duration, index + 1, endTime)

generateWordTimestamps(words, duration) ==
  LET weights == [i \in 1..Len(words) |-> FromTenths(getWordWeight(words[i]))]
      totalWeight == Sum(weights, Zero)
  IN  Spans(words, weights, totalWeight, duration, 1, Zero)

\* ---------------------------------------------------------------- chunker
\* the loop of chunkText from allWords[i] on (i counted from 0)
RECURSIVE ChunkLoop(_, _, _, _)
ChunkLoop(allWords, wordsPerChunk, i, globalWordIndex) ==
  IF i >= Len(allWords) THEN <<>>
  ELSE LET chunkWords == SubSeq(allWords, i + 1, Min(i + wordsPerChunk, Len(allWords)))
           estimatedDuration == FMul(FDiv(FromInt(Len(chunkWords)), FromInt(150)),
                                     FromInt(60))
           timestamps == generateWordTimestamps(chunkWords, estimatedDuration)
       IN  <<[id |-> i \div wordsPerChunk,
              text |-> join(chunkWords),
              words |-> [idx \in 1..Len(timestamps) |->
                          [timestamps[idx] EXCEPT !.index = globalWordIndex + idx - 1]],
              audioUrl |-> NoUrl,
              duration |-> estimatedDuration,
              isLoading |-> FALSE]>>
           \o ChunkLoop(allWords, wordsPerChunk, i + wordsPerChunk,
                        globalWordIndex + Len(chunkWords))

\* chunkText(text, wordsPerChunk) on the characters of the text
chunkTextOf(text, wordsPerChunk) ==
  ChunkLoop(split(trim(text)), wordsPerChunk, 0, 0)

\* -------------------------------------------------------------- alignment
\* Infinity, the initial wordStart: no number has mantissa 0 and exponent 1
Infinity == [m |-> 0, e |-> 1]

\* Math.min(a, b), Math.max(a, b)
FMin(a, b) ==
  IF a = Infinity THEN b ELSE IF b = Infinity THEN a
  ELSE IF FLeq(a, b) THEN a ELSE b

FMax(a, b) ==
  IF a = Infinity \/ b = Infinity THEN Infinity
  ELSE IF FLeq(a, b) THEN b ELSE a

\* a list that keeps the whitespace
NonSpaceChars_KeepsAll(alignment) == [i \in 1..Len(alignment.characters) |-> i]

\* the positions of the alignment that survive the whitespace filter
\* (char.trim() !== ''), in order
NonSpaceChars(alignment) ==
  SelectSeq([i \in 1..Len(alignment.characters) |-> i],
            LAMBDA i : ~IsSpace(alignment.characters[i]))

\* the inner loop of one word from its i-th character on (i counted from 0)
RECURSIVE MatchWord(_, _, _, _, _, _)
MatchWord(word, alignment, nonSpace, charIndex, i, acc) ==
  IF i < Len(word) /\ charIndex + i < Len(nonSpace)
  THEN LET k == nonSpace[charIndex + i + 1] IN
       IF Lower(alignment.characters[k]) = Lower(word[i + 1])
       THEN MatchWord(word, alignment, nonSpace, charIndex, i + 1,
              [wordStart |-> FMin(acc.wordStart, alignment.characterStartTimesSeconds[k]),
               wordEnd |-> FMax(acc.wordEnd, alignment.characterEndTimesSeconds[k]),
               matchedChars |-> acc.matchedChars + 1])
       ELSE acc
  ELSE acc

\* mutant: a word that gets the fallback span leaves the cursor where it is
RECURSIVE ConvertLoop_KeepsCursor(_, _, _, _, _, _)
ConvertLoop_KeepsCursor(words, alignment, nonSpace, wordIndex, charIndex, wordTimestamps) ==
  IF wordIndex > Len(words) THEN wordTimestamps
  ELSE LET word == words[wordIndex]
           acc == MatchWord(word, alignment, nonSpace, charIndex, 0,
                    [wordStart |-> Infinity, wordEnd |-> Zero, matchedChars |-> 0])
           estimatedStart == IF wordTimestamps = <<>> THEN Zero
                             ELSE wordTimestamps[Len(wordTimestamps)].end
           matched == acc.matchedChars = Len(word) /\ acc.wordStart # Infinity
           timestamp ==
             IF matched
             THEN [text |-> word, start |-> acc.wordStart, end |-> acc.wordEnd,
                   confidence |-> 10]
             ELSE [text |-> word, start |-> estimatedStart,
                   end |-> FAdd(estimatedStart, FromTenths(3)), confidence |-> 5]
       IN  ConvertLoop_KeepsCursor(words, alignment, nonSpace, wordIndex + 1,
                                   IF matched THEN charIndex + Len(word) ELSE charIndex,
                                   Append(wordTimestamps, timestamp))

\* the outer loop from words[wordIndex] on; confidence in tenths
RECURSIVE ConvertLoop(_, _, _, _, _, _)
ConvertLoop(words, alignment, nonSpace, wordIndex, charIndex, wordTimestamps) ==
  IF wordIndex > Len(words) THEN wordTimestamps
  ELSE LET word == words[wordIndex]
           acc == MatchWord(word, alignment, nonSpace, charIndex, 0,
                    [wordStart |-> Infinity, wordEnd |-> Zero, matchedChars |-> 0])
           estimatedStart == IF wordTimestamps = <<>> THEN Zero
                             ELSE wordTimestamps[Len(wordTimestamps)].end
           timestamp ==
             IF acc.matchedChars = Len(word) /\ acc.wordStart # Infinity
             THEN [text |-> word, start |-> acc.wordStart, end |-> acc.wordEnd,
                   confidence |-> 10]
             ELSE [text |-> word, start |-> estimatedStart,
                   end |-> FAdd(estimatedStart, FromTenths(3)), confidence |-> 5]
       IN  ConvertLoop(words, alignment, nonSpace, wordIndex + 1,
                       charIndex + Len(word), Append(wordTimestamps, timestamp))

convertCharacterTimingsToWords(text, alignment, globalStartIndex) ==
  ConvertLoop(split(trim(text)), alignment, NonSpaceChars(alignment), 1, 0, <<>>)

\* --------------------------------------------------- alignment to segments
\* a - b for a >= b
FSub(a, b) ==
  IF b.m = 0 THEN a
  ELSE LET e == Min(a.e, b.e) IN
       RoundRat(a.m * Pow2(a.e - e) - b.m * Pow2(b.e - e), 1, e)

\* Math.floor of a number that is not negative
FFloor(a) == IF a.e >= 0 THEN a.m * Pow2(a.e) ELSE a.m \div Pow2(0 - a.e)

\* mergeSegmentsToWords: the loop from words[i] on (i counted from 0)
RECURSIVE MergeLoop(_, _, _, _)
MergeLoop(segments, words, segmentsPerWord, i) ==
  IF i >= Len(words) THEN <<>>
  ELSE LET startIdx == FFloor(FMul(FromInt(i), segmentsPerWord))
           endIdx == FFloor(FMul(FromInt(i + 1), segmentsPerWord))
           wordSegments == SubSeq(segments, startIdx + 1, Min(endIdx, Len(segments)))
       IN  (IF Len(wordSegments) > 0
            THEN <<[text |-> words[i + 1], start |-> wordSegments[1].start,
                    end |-> wordSegments[Len(wordSegments)].end, confidence |-> 8]>>
            ELSE <<>>)
           \o MergeLoop(segments, words, segmentsPerWord, i + 1)

mergeSegmentsToWords(segments, words) ==
  MergeLoop(segments, words, FDiv(FromInt(Len(segments)), FromInt(Len(words))), 0)

\* the words of one span of time shared out by weight, from words[i] on
\* (i counted from 1), with the given confidence
RECURSIVE ShareOut(_, _, _, _, _, _, _)
ShareOut(words, weights, totalWeight, span, i, currentTime, confidence) ==
  IF i > Len(words) THEN <<>>
  ELSE LET duration == FMul(FDiv(weights[i], totalWeight), span) IN
       <<[text |-> words[i], start |-> currentTime,
          end |-> FAdd(currentTime, duration), confidence |-> confidence]>>
       \o ShareOut(words, weights, totalWeight, span, i + 1,
                   FAdd(currentTime, duration), confidence)

Weights(words) == [i \in 1..Len(words) |-> FromTenths(getWordWeight(words[i]))]

\* splitSegmentsToWords: the loop over the segments from segIdx on (from 0)
RECURSIVE SplitLoop(_, _, _, _)
SplitLoop(segments, words, wordsPerSegment, segIdx) ==
  IF segIdx >= Len(segments) THEN <<>>
  ELSE LET segment == segments[segIdx + 1]
           segmentDuration == FSub(segment.end, segment.start)
           startWordIdx == FFloor(FMul(FromInt(segIdx), wordsPerSegment))
           endWordIdx == FFloor(FMul(FromInt(segIdx + 1), wordsPerSegment))
           segmentWords == SubSeq(words, startWordIdx + 1, Min(endWordIdx, Len(words)))
       IN  (IF Len(segmentWords) = 0 THEN <<>>
            ELSE ShareOut(segmentWords, Weights(segmentWords),
                          Sum(Weights(segmentWords), Zero), segmentDuration,
                          1, segment.start, 7))
           \o SplitLoop(segments, words, wordsPerSegment, segIdx + 1)

\* a split that goes without the estimate for a recording without segments
splitSegmentsToWords_Interpolates(segments, words, totalDuration) ==
  SplitLoop(segments, words, Zero, 0)

splitSegmentsToWords(segments, words, totalDuration) ==
  IF Len(segments) = 0
  THEN ShareOut(words, Weights(words), Sum(Weights(words), Zero), totalDuration,
                1, Zero, 5)
  ELSE SplitLoop(segments, words,
                 FDiv(FromInt(Len(words)), FromInt(Len(segments))), 0)

\* mutant: as many segments as words are merged like more segments than words
alignSegmentsToWords_NoPerfectMatch(segments, words, totalDuration) ==
  IF Len(segments) >= Len(words) /\ Len(words) > 0
  THEN mergeSegmentsToWords(segments, words)
  ELSE splitSegmentsToWords(segments, words, totalDuration)

alignSegmentsToWords(segments, words, totalDuration) ==
  IF Len(segments) = Len(words)
  THEN [idx \in 1..Len(segments) |->
          [text |-> words[idx], start |-> segments[idx].start,
           end |-> segments[idx].end, confidence |-> 10]]
  ELSE IF Len(segments) > Len(words)
  THEN mergeSegmentsToWords(segments, words)
  ELSE splitSegmentsToWords(segments, words, totalDuration)

\* ------------------------------------------------------------ the cache
\* localStorage as the cache functions see it: store maps the keys that
\* have an item to the item, an item being a text that JSON.parse accepts
\* (parsable, with the value it parses to) or rejects; env.available is
\* false while every access throws (no storage, access denied); setItem
\* throws when the items would take more than Quota units.
Quota == 3

\* what JSON.stringify writes and JSON.parse reads back for a number:
\* Infinity (as NaN) is written as null
JsonNull == [m |-> 0, e |-> 2]

JsonNumber(x) == IF x = Infinity THEN JsonNull ELSE x

\* JSON.parse(JSON.stringify(results))
JsonRoundTrip(results) ==
  [i \in 1..Len(results) |->
     [results[i] EXCEPT !.start = JsonNumber(@), !.end = JsonNumber(@)]]

ItemSize(item) == 1 + Len(item.value)

RECURSIVE StoreSize(_, _)
StoreSize(store, keys) ==
  IF keys = {} THEN 0
  ELSE LET k == CHOOSE x \in keys : TRUE IN
       ItemSize(store[k]) + StoreSize(store, keys \ {k})

\* localStorage.setItem(key, text): the new store, or a throw
setItem(store, env, key, item) ==
  LET others == DOMAIN store \ {key} IN
  IF ~env.available \/ StoreSize(store, others) + ItemSize(item) > Quota
  THEN [threw |-> TRUE, store |-> store]
  ELSE [threw |-> FALSE,
        store |-> [k \in others \cup {key} |-> IF k = key THEN item ELSE store[k]]]

\* cacheAnalysisResults(cacheKey, results): the store afterwards; the catch
\* block keeps every throw of the try block from the caller
cacheAnalysisResultsOf(store, env, cacheKey, results) ==
  [setItem(store, env, cacheKey,
           [parsable |-> TRUE, value |-> JsonRoundTrip(results)])
     EXCEPT !.threw = FALSE]

\* getCachedAnalysisResults(cacheKey): a throw of getItem or of JSON.parse
\* ends in the catch block and null is returned
getCachedAnalysisResultsOf(store, env, cacheKey) ==
  IF ~env.available THEN [kind |-> "null", value |-> <<>>]
  ELSE IF cacheKey \notin DOMAIN store THEN [kind |-> "null", value |-> <<>>]
  ELSE IF ~store[cacheKey].parsable THEN [kind |-> "null", value |-> <<>>]
  ELSE [kind |-> "value", value |-> store[cacheKey].value]

\* --------------------------------------------------------- AudioQueue
\* audio-queue.ts.  The clock of the AudioContext counts ticks and stands
\* still while the context is suspended.  A source node carries the time it
\* was scheduled for (when), its playbackRate and what is left of its
\* buffer; it sounds from the later of `when` and the time of start() on, as
\* the Web Audio API has it, and uses up `rate` units of buffer per tick.
\* Its ended event is dispatched after the buffer is used up or stop() was
\* called, and the handler runs later, as a task of its own.
MaxBuffers == 2      \* calls of queueChunk in a behaviour
MaxClock == 4        \* ticks of the clock in a behaviour

BufferDurations == {2, 4}

Rates == {1, 2}

NewQueue(running) ==
  [currentTime |-> 0, running |-> running,
   sources |-> <<>>,          \* every source node created, by number
   scheduledSources |-> <<>>, \* numbers of the nodes in this.scheduledSources
   nextStartTime |-> 0, isPlaying |-> FALSE, playbackRate |-> 1,
   fetching |-> {},           \* calls of queueChunk before their decode ends
   events |-> {},             \* ended events dispatched, handler not yet run
   calls |-> 0,               \* calls of queueChunk so far
   stops |-> 0]               \* calls of stop so far

\* a source sounds: it was started, its time has come, buffer is left
Audible(q, s) ==
  /\ q.sources[s].when <= q.currentTime
  /\ q.sources[s].remaining > 0
  /\ ~q.sources[s].stopped

\* queueChunk up to its first await
queueChunkFetch(q, duration) ==
  [q EXCEPT !.fetching = @ \cup {[call |-> q.calls + 1, duration |-> duration,
                                   stops |-> q.stops]},
            !.calls = @ + 1]

\* queueChunk after decodeAudioData
queueChunkDecoded(q, f) ==
  LET startTime == IF q.nextStartTime # 0 THEN q.nextStartTime ELSE q.currentTime
      source == [when |-> startTime, rate |-> q.playbackRate,
                 remaining |-> f.duration, stopped |-> FALSE, ended |-> FALSE,
                 call |-> f.call]
      s == Len(q.sources) + 1
  IN  [q EXCEPT !.fetching = @ \ {f},
                !.sources = Append(@, source),
                !.scheduledSources = Append(@, s),
                !.nextStartTime = startTime + (f.duration \div q.playbackRate)]

\* queueChunk when fetch or decode throws
queueChunkThrown(q, f) == [q EXCEPT !.fetching = @ \ {f}]

\* source.onended
onended(q, s) ==
  LET left == SelectSeq(q.scheduledSources, LAMBDA x : x # s) IN
  [q EXCEPT !.events = @ \ {s},
            !.sources[s].ended = TRUE,
            !.scheduledSources = left,
            !.isPlaying = IF left = <<>> THEN FALSE ELSE @]

queuePlay(q) == [q EXCEPT !.running = TRUE, !.isPlaying = TRUE]

queuePause(q) == [q EXCEPT !.running = FALSE, !.isPlaying = FALSE]

InList(seq, x) == \E i \in 1..Len(seq) : seq[i] = x

\* stop
queueStop(q) ==
  [q EXCEPT !.sources = [s \in 1..Len(@) |->
                           IF InList(q.scheduledSources, s)
                           THEN [@[s] EXCEPT !.stopped = TRUE] ELSE @[s]],
            !.events = @ \cup {s \in 1..Len(q.sources) :
                                 InList(q.scheduledSources, s) /\ ~q.sources[s].ended},
            !.scheduledSources = <<>>,
            !.nextStartTime = 0,
            !.isPlaying = FALSE, !.stops = @ + 1]

\* a setPlaybackRate that leaves the scheduled sources alone
setPlaybackRate_NewOnly(q, rate) ==
  [q EXCEPT !.playbackRate = rate]

\* setPlaybackRate
setPlaybackRate(q, rate) ==
  [q EXCEPT !.playbackRate = rate,
            !.sources = [s \in 1..Len(@) |->
                           IF InList(q.scheduledSources, s)
                           THEN [@[s] EXCEPT !.rate = rate] ELSE @[s]]]

\* one tick of a running context: the sounding sources use up their buffer
\* and the ended event of those that run out is dispatched
tick(q) ==
  LET played == [s \in 1..Len(q.sources) |->
                   IF Audible(q, s)
                   THEN [q.sources[s] EXCEPT
                           !.remaining = IF @ > q.sources[s].rate
                                         THEN @ - q.sources[s].rate ELSE 0]
                   ELSE q.sources[s]]
  IN  [q EXCEPT !.currentTime = @ + 1,
                !.sources = played,
                !.events = @ \cup {s \in 1..Len(played) :
                                     Audible(q, s) /\ played[s].remaining = 0}]

\* ------------------------------------------------------ speech segments
\* detectSpeechSegments on a clip given by the RMS amplitude of each of its
\* windows, in hundredths, and its length. Times are counted in ticks of
\* 5 ms: a window (WINDOW_SIZE / sampleRate = 10 ms) is two ticks, so that a
\* clip may end in the middle of its last window.
AMPLITUDE_THRESHOLD == 2      \* 0.02
MIN_SEGMENT_DURATION == 16    \* 0.08 s
MIN_SILENCE_DURATION == 10    \* 0.05 s
WINDOW_SIZE == 2              \* 10 ms

\* segmentStart === null
NoSegment == 0 - 1

\* the windows of the loop from window i on (i counted from 0)
RECURSIVE DetectLoop(_, _, _, _, _, _, _)
DetectLoop(rms, length, i, segmentStart, silenceDuration, maxAmplitude, segments) ==
  IF i >= Len(rms)
  THEN IF segmentStart # NoSegment
       THEN Append(segments, [start |-> segmentStart, end |-> length,
                              amplitude |-> maxAmplitude])
       ELSE segments
  ELSE LET time == i * WINDOW_SIZE IN
       IF rms[i + 1] > AMPLITUDE_THRESHOLD
       THEN DetectLoop(rms, length, i + 1,
                       IF segmentStart = NoSegment THEN time ELSE segmentStart,
                       0,
                       IF segmentStart = NoSegment THEN rms[i + 1]
                       ELSE IF maxAmplitude >= rms[i + 1] THEN maxAmplitude
                       ELSE rms[i + 1],
                       segments)
       ELSE LET silence == silenceDuration + WINDOW_SIZE
                segmentEnd == time - silence
                duration == segmentEnd - segmentStart
            IN  IF segmentStart # NoSegment /\ silence >= MIN_SILENCE_DURATION
                THEN DetectLoop(rms, length, i + 1, NoSegment, silence, 0,
                                IF duration >= MIN_SEGMENT_DURATION
                                THEN Append(segments,
                                            [start |-> segmentStart,
                                             end |-> segmentEnd,
                                             amplitude |-> maxAmplitude])
                                ELSE segments)
                ELSE DetectLoop(rms, length, i + 1, segmentStart, silence,
                                maxAmplitude, segments)

detectSpeechSegments(rms, length) ==
  DetectLoop(rms, length, 0, NoSegment, 0, 0, <<>>)


\* ---------------------------------------------------------- specification
InitSession ==
  /\ chunks = [i \in {} |-> 0]
  /\ provider = "elevenlabs"
  /\ playbackState = "idle"
  /\ currentChunkIndex = 0
  /\ currentWordIndex = 0
  /\ playbackSpeed = 1
  /\ audio = [src |-> NoUrl, currentTime |-> 0, paused |-> TRUE,
              playbackRate |-> 1, ready |-> FALSE, startAt |-> 0]
  /\ audioUrlsRef = [i \in 0..(MaxChunks - 1) |-> NoUrl]
  /\ hasPreloadedRef = FALSE
  /\ chunksLengthRef = 0
  /\ listener = [playbackSpeed |-> 1, currentWordIndex |-> 0]
  /\ pending = {}
  /\ nextOid = 1
  /\ nextUrl = 1
  /\ last = Event("init", 0, TRUE)

\* the first visit: nothing is in the storage of the browser
InitHook == InitSession /\ cache = [k \in {} |-> 0]

\* no utility call in the runs of the hook
NoCall == [fn |-> "none", done |-> FALSE]

\* no AudioQueue either: the hook plays through its audio element
NoQueue == [calls |-> 0]

Init == InitHook /\ call = NoCall /\ queue = NoQueue

\* the answers of the device to the play() calls of one event: a completion
\* reaches a play() only through the load-and-play effect, which needs
\* 'playing' or a pending auto-play
DeviceAnswers(r) ==
  IF r.playbackState = "playing" \/ \E op \in r.pending : op.shouldAutoPlay
  THEN BOOLEAN ELSE {TRUE}

\* the user enters the text of the session
HandleTextChange(n) ==
  /\ Length(chunks) = 0
  /\ n <= MaxLoads
  /\ Commit(Finish(Cur, handleTextChange(Cur, n), FALSE, TRUE),
            Event("textChange", n, TRUE))

\* the user selects the provider before entering the text
HandleProviderChange(p) ==
  /\ Length(chunks) = 0
  /\ p # provider
  /\ Commit(Finish(Cur, handleProviderChange(Cur, p), FALSE, TRUE),
            Event("providerChange", 0, TRUE))

\* the user presses play while at most loads requests have been issued
PlayWithin(loads, ok) ==
  LET res == play(Cur, ok) IN
  /\ res[1].nextUrl <= loads + 1
  /\ ok \/ res[2]
  /\ Commit(Finish(Cur, res[1], res[2], ok), Event("play", 0, ok))

Play(ok) == PlayWithin(MaxLoads, ok)

Pause == Commit(Finish(Cur, pause(Cur), FALSE, TRUE), Event("pause", 0, TRUE))

SetSpeed(speed) ==
  /\ speed # playbackSpeed
  /\ Commit(Finish(Cur, setSpeed(Cur, speed), FALSE, TRUE),
            Event("setSpeed", speed, TRUE))

SeekToWord(wordIndex, ok) ==
  /\ wordIndex < Length(chunks) * WordsPerChunk
  /\ LET res == seekToWord(Cur, wordIndex, ok) IN
     /\ ok \/ res[2]
     /\ Commit(Finish(Cur, res[1], res[2], ok), Event("seekToWord", wordIndex, ok))

\* the audio element reports progress
TimeUpdate(t) ==
  /\ ~audio.paused /\ audio.ready
  /\ t > audio.currentTime
  /\ LET r == [Cur EXCEPT !.audio.currentTime = t] IN
     Commit(Finish(r, handleTimeUpdate(r), FALSE, TRUE), Event("timeupdate", t, TRUE))

\* the clip has been played to its end
Ended(ok) ==
  /\ ~audio.paused /\ audio.ready
  /\ LET r == [Cur EXCEPT !.audio.currentTime = AudioLen, !.audio.paused = TRUE]
         res == handleEnded(r, ok)
     IN  /\ ok \/ res[2]
         /\ Commit(Finish(r, res[1], res[2], ok), Event("ended", 0, ok))

\* the synthesis request of a load completes
LoadDone(op, outcome, ok) ==
  /\ op.phase = "tts"
  /\ outcome \in Outcomes(op)
  /\ Commit(Finish(Cur, loadChunkDone(Cur, op, outcome), FALSE, ok),
            Event(outcome, op.chunkIndex, ok))

\* the audio blob has been fetched back for the analysis
BlobDone(op, ok, readable) ==
  /\ op.phase = "blob"
  /\ Commit(Finish(Cur, analyzeStart(Cur, op, readable), FALSE, ok),
            Event("blob", op.chunkIndex, ok))

\* the acoustic analysis completes
AnalysisDone(op, wordTimings, ok, writable) ==
  /\ op.phase = "analysis"
  /\ Commit(Finish(Cur, analyzeDone(Cur, op, wordTimings, writable), FALSE, ok),
            Event(IF wordTimings = <<>> THEN "noAnalysis" ELSE "analysis",
                  op.chunkIndex, ok))

Next ==
  \/ \E n \in 1..MaxChunks : HandleTextChange(n)
  \/ \E p \in Providers : HandleProviderChange(p)
  \/ \E ok \in BOOLEAN : Play(ok)
  \/ Pause
  \/ \E wordIndex \in 0..(MaxChunks * WordsPerChunk - 1), ok \in BOOLEAN :
       SeekToWord(wordIndex, ok)
  \/ \E t \in 1..MaxTick : TimeUpdate(t)
  \/ \E ok \in BOOLEAN : Ended(ok)
  \/ \E op \in pending, outcome \in {"error", "audio", "aligned"},
         ok \in DeviceAnswers(Cur) : LoadDone(op, outcome, ok)
  \/ \E op \in pending, ok \in DeviceAnswers(Cur), readable \in BOOLEAN :
       BlobDone(op, ok, readable)
  \/ \E op \in pending, wordTimings \in AnalysisTables \cup {<<>>},
         ok \in DeviceAnswers(Cur), writable \in BOOLEAN :
       AnalysisDone(op, wordTimings, ok, writable)

\* one reading session at the initial speed
Spec == Init /\ [][Next]_vars

\* the same session with speed changes
SpecSpeed == Init /\ [][Next \/ \E speed \in Speeds : SetSpeed(speed)]_vars

\* the loading of a text: play() may issue one request more, after the
\* preload of every chunk, and the requests complete
NextReload ==
  \/ \E n \in 1..MaxChunks : HandleTextChange(n)
  \/ \E ok \in BOOLEAN : PlayWithin(MaxLoads + 1, ok)
  \/ Pause
  \/ \E op \in pending, outcome \in {"error", "audio", "aligned"},
         ok \in DeviceAnswers(Cur) : LoadDone(op, outcome, ok)

SpecReload == Init /\ [][NextReload]_vars

\* the user replaces the first text by a second one, while no request is in
\* flight
HandleTextReplace(n) ==
  /\ Length(chunks) > 0
  /\ chunks[0].text[1] = 1
  /\ pending = {}
  /\ Commit(Finish(Cur, handleTextChangeTo(Cur, n, 2), FALSE, TRUE),
            Event("textReplace", n, TRUE))

\* the user leaves the default provider while a text is there
HandleProviderSwitch(p) ==
  /\ Length(chunks) > 0
  /\ provider = "elevenlabs"
  /\ p # provider
  /\ Commit(Finish(Cur, handleProviderChange(Cur, p), FALSE, TRUE),
            Event("providerSwitch", 0, TRUE))

\* a session in which the text or the provider is changed once more
SpecEdit ==
  Init /\ [][\/ Next
            \/ \E n \in 1..MaxChunks : HandleTextReplace(n)
            \/ \E p \in Providers : HandleProviderSwitch(p)]_vars

\* ------------------------------------------- specification of the utilities
\* One call of a pure function per behaviour: the initial state holds the
\* arguments, the action applies the function.
Alphabet == {"a", "b", " "}

Texts == UNION {[1..k -> Alphabet] : k \in 0..MaxText}

HelloText ==
  <<"H","e","l","l","o"," ","w","o","r","l","d","."," ",
    "G","o","o","d","b","y","e"," ","n","o","w",".">>

Vocabulary ==
  {<<"a">>, <<"c","a","t">>, <<"H","e","l","l","o">>, <<"n","o","w",".">>}

WordLists == UNION {[1..k -> Vocabulary] : k \in 1..MaxWords}

Durations == {FromTenths(4), FromInt(1), FromInt(3)}

\* character timings spread evenly over the characters of a text of
\* duration d: character i takes [(i-1) * d / n, i * d / n]
Slot(i, n, d) == FDiv(FMul(FromInt(i), d), FromInt(n))

Upper(c) == IF c = "a" THEN "A" ELSE c

\* the character lists a provider may return for a text: the text itself,
\* the text in another case, the text with one character replaced, the text
\* cut short
CharacterLists(text) ==
  {text, [i \in 1..Len(text) |-> Upper(text[i])]}
    \cup {[text EXCEPT ![k] = "b"] : k \in 1..Len(text)}
    \cup {SubSeq(text, 1, k) : k \in 0..(Len(text) - 1)}

\* forward: the timings run with the characters; otherwise against them
Alignment(characters, d, forward) ==
  LET n == Len(characters)
      pos(i) == IF forward THEN i ELSE n + 1 - i
  IN  [characters |-> characters,
       characterStartTimesSeconds |-> [i \in 1..n |-> Slot(pos(i) - 1, n, d)],
       characterEndTimesSeconds |-> [i \in 1..n |-> Slot(pos(i), n, d)],
       duration |-> d, even |-> forward]

ChunkCalls ==
  {[fn |-> "chunkText", text |-> t, wordsPerChunk |-> w, done |-> FALSE] :
     t \in Texts, w \in 1..MaxPerChunk}
    \cup {[fn |-> "chunkText", text |-> HelloText, wordsPerChunk |-> 10,
           done |-> FALSE]}

TimestampCalls ==
  {[fn |-> "generateWordTimestamps", words |-> ws, duration |-> d,
    done |-> FALSE] : ws \in WordLists, d \in Durations}

ConvertCalls ==
  UNION {{[fn |-> "convertCharacterTimingsToWords", text |-> t,
           alignment |-> Alignment(cs, FromInt(3), fw), done |-> FALSE] :
            cs \in CharacterLists(t), fw \in BOOLEAN} : t \in Texts}

\* words with and without syllables, of one to thirteen letters
Stems ==
  {<<>>,
   <<"a">>,
   <<"a","t">>,
   <<"c","a","t">>,
   <<"H","e","l","l","o">>,
   <<"m","a","k","e">>,
   <<"y","e","s">>,
   <<"i","d","e","a">>,
   <<"r","h","y","t","h","m">>,
   <<"a","b","c","d","e","f","g","h","i","j">>,
   <<"e","x","t","r","a","o","r","d","i","n","a","r","y">>}

\* what follows the letters of a word
Endings == {<<>>, <<".">>, <<"!">>, <<"?">>, <<";">>, <<":">>, <<",">>, <<".", "a">>}

WeightCalls ==
  {[fn |-> "getWordWeight", word |-> stem \o ending, done |-> FALSE] :
     stem \in Stems, ending \in Endings}

InitText ==
  /\ InitHook
  /\ call \in ChunkCalls \cup TimestampCalls \cup ConvertCalls \cup WeightCalls
  /\ queue = NoQueue

Return(result) ==
  /\ call' = [call EXCEPT !.done = TRUE] @@ [result |-> result]
  /\ UNCHANGED <<chunks, provider, playbackState, currentChunkIndex,
                 currentWordIndex, playbackSpeed, audio, audioUrlsRef,
                 hasPreloadedRef, chunksLengthRef, listener, pending, cache,
                 nextOid, nextUrl, last, queue>>

ChunkText ==
  /\ call.fn = "chunkText" /\ ~call.done
  /\ Return(chunkTextOf(call.text, call.wordsPerChunk))

GenerateWordTimestamps ==
  /\ call.fn = "generateWordTimestamps" /\ ~call.done
  /\ Return(generateWordTimestamps(call.words, call.duration))

ConvertCharacterTimingsToWords ==
  /\ call.fn = "convertCharacterTimingsToWords" /\ ~call.done
  /\ Return(convertCharacterTimingsToWords(call.text, call.alignment, 0))

GetWordWeight ==
  /\ call.fn = "getWordWeight" /\ ~call.done
  /\ Return(getWordWeight(call.word))

NextText ==
  \/ ChunkText
  \/ GenerateWordTimestamps
  \/ ConvertCharacterTimingsToWords
  \/ GetWordWeight

SpecText == InitText /\ [][NextText]_vars

\* --------------------------------- specification of the segment alignment
Segment(s, e) == [start |-> FromTenths(s), end |-> FromTenths(e), amplitude |-> 1]

SegmentLists ==
  {<<>>, <<Segment(0, 10)>>, <<Segment(1, 12), Segment(15, 30)>>,
   <<Segment(0, 4), Segment(5, 9), Segment(10, 30)>>,
   <<Segment(0, 2), Segment(3, 5), Segment(6, 8), Segment(9, 30)>>}

\* n segments of one second each, with a second of silence between them
SegmentRun(n) == [j \in 1..n |-> Segment(20 * (j - 1), 20 * (j - 1) + 10)]

\* n times the word "cat"
WordRun(n) == [j \in 1..n |-> <<"c","a","t">>]

\* the short lists in every combination, and two long recordings: 31
\* segments for 11 words, 11 segments for 31 words
AlignCalls ==
  {[fn |-> "alignSegmentsToWords", segments |-> ss, words |-> ws,
    totalDuration |-> d, done |-> FALSE] :
     ss \in SegmentLists, ws \in WordLists \cup {<<>>}, d \in Durations}
    \cup {[fn |-> "alignSegmentsToWords", segments |-> SegmentRun(31),
           words |-> WordRun(11), totalDuration |-> FromInt(61), done |-> FALSE],
          [fn |-> "alignSegmentsToWords", segments |-> SegmentRun(11),
           words |-> WordRun(31), totalDuration |-> FromInt(21), done |-> FALSE]}

InitSegments == InitHook /\ call \in AlignCalls /\ queue = NoQueue

AlignSegmentsToWords ==
  /\ call.fn = "alignSegmentsToWords" /\ ~call.done
  /\ Return(alignSegmentsToWords(call.segments, call.words, call.totalDuration))

SpecSegments == InitSegments /\ [][AlignSegmentsToWords]_vars

\* ------------------------------------------------ specification of the cache
\* Calls of cacheAnalysisResults and getCachedAnalysisResults in any order,
\* while the storage comes and goes and items are damaged from outside.
\* call.puts remembers, per key, the value of the last put and whether the
\* storage holds it.
CacheKeys == {"k1", "k2"}

Timestamp(word, s, e) ==
  [text |-> word, start |-> FromInt(s), end |-> FromInt(e), confidence |-> 10]

CacheValues ==
  {<<>>, <<Timestamp(<<"a">>, 0, 1)>>, <<Timestamp(<<"b">>, 0, 2)>>,
   <<Timestamp(<<"a">>, 0, 1), Timestamp(<<"b">>, 1, 2)>>}

NoPut == [made |-> FALSE, stored |-> FALSE, value |-> <<>>]

InitCache ==
  /\ InitHook
  /\ call = [fn |-> "none", done |-> FALSE, key |-> "k1", escaped |-> FALSE,
             result |-> [kind |-> "null", value |-> <<>>],
             puts |-> [k \in CacheKeys |-> NoPut], available |-> TRUE]
  /\ queue = NoQueue

HookUnchanged ==
  UNCHANGED <<chunks, provider, playbackState, currentChunkIndex,
              currentWordIndex, playbackSpeed, audio, audioUrlsRef,
              hasPreloadedRef, chunksLengthRef, listener, pending,
              nextOid, nextUrl, last, queue>>

CachePut(k, v) ==
  LET env == [available |-> call.available]
      attempt == setItem(cache, env, k, [parsable |-> TRUE, value |-> JsonRoundTrip(v)])
      r == cacheAnalysisResultsOf(cache, env, k, v)
  IN  /\ cache' = r.store
      /\ call' = [call EXCEPT !.fn = "put", !.done = TRUE, !.key = k,
                              !.escaped = r.threw,
                              !.puts[k] = [made |-> TRUE, stored |-> ~attempt.threw,
                                           value |-> v]]
      /\ HookUnchanged

CacheGet(k) ==
  /\ call' = [call EXCEPT !.fn = "get", !.done = TRUE, !.key = k,
                          !.result = getCachedAnalysisResultsOf(
                                       cache, [available |-> call.available], k)]
  /\ UNCHANGED cache
  /\ HookUnchanged

\* the storage becomes unavailable, or available again
StorageSwitches ==
  /\ call' = [call EXCEPT !.fn = "storage", !.available = ~@]
  /\ UNCHANGED cache
  /\ HookUnchanged

\* the item of key k is overwritten from outside by a text that does not parse
ItemDamaged(k) ==
  /\ k \in DOMAIN cache
  /\ cache[k].parsable
  /\ cache' = [cache EXCEPT ![k].parsable = FALSE]
  /\ call' = [call EXCEPT !.fn = "damage", !.puts[k].stored = FALSE]
  /\ HookUnchanged

NextCache ==
  \/ \E k \in CacheKeys, v \in CacheValues : CachePut(k, v)
  \/ \E k \in CacheKeys : CacheGet(k)
  \/ StorageSwitches
  \/ \E k \in CacheKeys : ItemDamaged(k)

SpecCache == InitCache /\ [][NextCache]_vars

\* ------------------------------------------ specification of the AudioQueue
MaxStops == 1        \* calls of stop in a behaviour

\* the context of a new AudioQueue runs, or waits suspended for a gesture
InitQueue ==
  /\ InitHook
  /\ call = NoCall
  /\ queue \in {NewQueue(running) : running \in BOOLEAN}

QueueStep(q) ==
  /\ queue' = q
  /\ UNCHANGED <<chunks, provider, playbackState, currentChunkIndex,
                 currentWordIndex, playbackSpeed, audio, audioUrlsRef,
                 hasPreloadedRef, chunksLengthRef, listener, pending, cache,
                 nextOid, nextUrl, last, call>>

QueueChunk(duration) ==
  /\ queue.calls < MaxBuffers
  /\ QueueStep(queueChunkFetch(queue, duration))

QueueChunkDecoded(f) == QueueStep(queueChunkDecoded(queue, f))

QueueChunkThrown(f) == QueueStep(queueChunkThrown(queue, f))

OnEnded(s) == QueueStep(onended(queue, s))

QueuePlay == QueueStep(queuePlay(queue))

QueuePause == QueueStep(queuePause(queue))

QueueStop ==
  /\ queue.stops < MaxStops
  /\ QueueStep(queueStop(queue))

SetPlaybackRate(rate) == QueueStep(setPlaybackRate(queue, rate))

Tick ==
  /\ queue.running
  /\ queue.currentTime < MaxClock
  /\ QueueStep(tick(queue))

NextQueue ==
  \/ \E duration \in BufferDurations : QueueChunk(duration)
  \/ \E f \in queue.fetching : QueueChunkDecoded(f)
  \/ \E f \in queue.fetching : QueueChunkThrown(f)
  \/ \E s \in queue.events : OnEnded(s)
  \/ QueuePlay
  \/ QueuePause
  \/ QueueStop
  \/ \E rate \in Rates : SetPlaybackRate(rate)
  \/ Tick

SpecQueue == InitQueue /\ [][NextQueue]_vars

\* the number of synthesis requests after which a text session is cut off
MaxRequests == 6

\* the user replaces the first text by a second one while requests may be
\* in flight
HandleTextSwap(n) ==
  /\ Length(chunks) > 0
  /\ chunks[0].text[1] = 1
  /\ nextUrl <= MaxLoads + 1
  /\ Commit(Finish(Cur, handleTextChangeTo(Cur, n, 2), FALSE, TRUE),
            Event("textSwap", n, TRUE))

\* the loading of a text that is replaced before its requests complete
NextRetext ==
  \/ \E n \in 1..MaxChunks : HandleTextChange(n)
  \/ \E n \in 1..MaxChunks : HandleTextSwap(n)
  \/ /\ nextUrl <= MaxRequests
     /\ \E op \in pending, outcome \in {"error", "audio"},
            ok \in DeviceAnswers(Cur) : LoadDone(op, outcome, ok)

SpecRetext == Init /\ [][NextRetext]_vars

\* a later visit: the storage of the browser holds the analyses that an
\* earlier session cached for the first text
EarlierCaches ==
  {[k \in {getAnalysisCacheKey(chunkText(MaxChunks, 1, 1)[i]) : i \in I} |-> t] :
     I \in SUBSET {0}, t \in AnalysisTables}

InitRevisit ==
  /\ InitSession
  /\ cache \in EarlierCaches
  /\ call = NoCall
  /\ queue = NoQueue

SpecRevisit == InitRevisit /\ [][Next]_vars

\* ------------------------------------ specification of the speech segments
\* clips of up to MaxWindows windows, each window silent or loud; the
\* silence of a clip is digital silence or noise at the threshold; the last
\* window of a clip may be half a window
MaxWindows == 14

Loud == AMPLITUDE_THRESHOLD + 3

DetectCall(n, loud, quiet, cut) ==
  [fn |-> "detectSpeechSegments",
   rms |-> [i \in 1..n |-> IF i \in loud THEN Loud ELSE quiet],
   length |-> n * WINDOW_SIZE - cut, done |-> FALSE]

InitDetect ==
  /\ InitHook
  /\ queue = NoQueue
  /\ \E n \in 0..MaxWindows :
       \E loud \in SUBSET (1..n), quiet \in {0, AMPLITUDE_THRESHOLD},
          cut \in (IF n = 0 THEN {0} ELSE {0, 1}) :
         call = DetectCall(n, loud, quiet, cut)

DetectSpeechSegments ==
  /\ call.fn = "detectSpeechSegments" /\ ~call.done
  /\ Return(detectSpeechSegments(call.rms, call.length))

SpecDetect == InitDetect /\ [][DetectSpeechSegments]_vars

\* ------------------------------------- specification of the word lookup
\* word lists of up to MaxLookupWords words with times up to MaxLookupTime
\* tenths of a second, sorted by startTime and not overlapping (a word may
\* be empty, and words may be apart), and a clock time
MaxLookupWords == 3

MaxLookupTime == 5

LookupCall(n, b, t) ==
  [fn |-> "getCurrentWordIndex",
   words |-> [k \in 0..(n - 1) |->
                [startTime |-> b[2 * k + 1], endTime |-> b[2 * k + 2], index |-> k]],
   currentTime |-> t, done |-> FALSE]

InitLookup ==
  /\ InitHook
  /\ queue = NoQueue
  /\ \E n \in 0..MaxLookupWords :
       \E b \in [1..(2 * n) -> 0..MaxLookupTime], t \in 0..MaxLookupTime :
         /\ \A j \in 1..(2 * n - 1) : b[j] <= b[j + 1]
         /\ call = LookupCall(n, b, t)

GetCurrentWordIndex ==
  /\ call.fn = "getCurrentWordIndex" /\ ~call.done
  /\ Return(getCurrentWordIndex(call.words, call.currentTime))

SpecLookup == InitLookup /\ [][GetCurrentWordIndex]_vars

TypeOK ==
  /\ playbackState \in States
  /\ provider \in Providers
  /\ currentChunkIndex \in 0..MaxChunks
  /\ audio.currentTime \in 0..AudioLen
\* ================================================================= claims
Timing(c) ==
  [words |-> [j \in DOMAIN c.words |-> <<c.words[j].startTime, c.words[j].endTime>>],
   duration |-> c.duration]

\* the events in which an alignment result arrives
AlignmentEvents == {"audio", "aligned", "error", "blob", "analysis"}

\* C1: an arriving alignment result (at load completion, from the cache or
\* from a finished analysis) changes the word times or the duration of a
\* chunk only if playbackState is idle or paused when it is applied.
C1_RewriteOnlyIdleOrPaused ==
  [][(/\ last'.op \in AlignmentEvents
      /\ \E i \in DOMAIN chunks \cap DOMAIN chunks' :
           Timing(chunks'[i]) # Timing(chunks[i]))
     => playbackState \in {"idle", "paused"}]_vars
\* where the output is, or will start once the clip is there
OutputPosition == IF audio.ready THEN audio.currentTime ELSE audio.startAt

Loaded(i) == i \in DOMAIN chunks /\ RefOrChunkUrl(Cur, i) # NoUrl

HasNext == currentChunkIndex < Length(chunks) - 1

\* the state in which handleEnded runs
AtEnd == [Cur EXCEPT !.audio.currentTime = AudioLen, !.audio.paused = TRUE]

\* C2: when chunk i (not the last) ends in state playing and the audio of
\* chunk i+1 is loaded, the state stays playing, currentChunkIndex becomes
\* i+1 and no state other than playing is passed through.
C2_SeamlessTransition ==
  [][(/\ Ended(TRUE)
      /\ playbackState = "playing"
      /\ HasNext
      /\ Loaded(currentChunkIndex + 1))
     => (/\ playbackState' = "playing"
         /\ currentChunkIndex' = currentChunkIndex + 1
         /\ audio'.src = RefOrChunkUrl(Cur, currentChunkIndex + 1)
         /\ ~audio'.paused
         /\ Trail(AtEnd, handleEnded(AtEnd, TRUE)[1], TRUE, TRUE) = {"playing"})]_vars

C2_Witness ==
  /\ last.op = "ended" /\ last.from = "playing" /\ last.ok
  /\ playbackState = "playing"
  /\ currentChunkIndex = 1
  /\ audio.src = audioUrlsRef[1] /\ ~audio.paused

\* C3: when chunk i ends and chunk i+1 exists without loaded audio, the state
\* becomes paused and chunks, currentChunkIndex and currentWordIndex are
\* kept; a play() accepted later, when the audio is there, plays from chunk
\* i on, whose end hands over to chunk i+1 (C2).
C3_PauseWhenNextMissing ==
  [][/\ (\E ok \in BOOLEAN : Ended(ok)) /\ HasNext /\ ~Loaded(currentChunkIndex + 1)
        => /\ playbackState' = "paused"
           /\ Trail(AtEnd, handleEnded(AtEnd, TRUE)[1], FALSE, TRUE) \subseteq
                {playbackState, "paused"}
           /\ chunks' = chunks
           /\ currentChunkIndex' = currentChunkIndex
           /\ currentWordIndex' = currentWordIndex
           /\ audioUrlsRef' = audioUrlsRef
     /\ (/\ Play(TRUE)
         /\ playbackState = "paused"
         /\ HasNext
         /\ Loaded(currentChunkIndex)
         /\ Loaded(currentChunkIndex + 1))
        => /\ playbackState' = "playing"
           /\ currentChunkIndex' = currentChunkIndex
           /\ audio'.src = RefOrChunkUrl(Cur, currentChunkIndex)
           /\ ~audio'.paused
           /\ Loaded(currentChunkIndex + 1)']_vars

C3_Witness ==
  /\ last.op = "ended" /\ last.from = "playing"
  /\ playbackState = "paused"
  /\ HasNext
  /\ ~Loaded(currentChunkIndex + 1)

\* C4: when the last chunk ends the state becomes ended and currentWordIndex
\* 0; a play() issued in state ended keeps currentChunkIndex = 0 and, when
\* the audio of chunk 0 is there and the device accepts, plays chunk 0.
C4_EndOfLastChunk ==
  [][/\ ((\E ok \in BOOLEAN : Ended(ok)) /\ ~HasNext)
        => (playbackState' = "ended" /\ currentWordIndex' = 0)
     /\ (playbackState = "ended" /\ \E ok \in BOOLEAN : Play(ok))
        => (currentChunkIndex = 0 /\ currentChunkIndex' = 0)
     /\ (playbackState = "ended" /\ Play(TRUE) /\ Loaded(0))
        => (/\ playbackState' = "playing"
            /\ audio'.src = RefOrChunkUrl(Cur, 0)
            /\ ~audio'.paused)]_vars

C4_Witness ==
  /\ last.op = "play" /\ last.from = "ended" /\ last.ok
  /\ playbackState = "playing"
  /\ currentChunkIndex = 0
  /\ Length(chunks) > 1

\* C5: seekToWord(g) for a word of a chunk without loaded audio changes
\* neither playbackState, currentChunkIndex, currentWordIndex nor the audio
\* element, whatever the state.
C5_SeekUnloadedIsNoOp ==
  [][\A g \in 0..(MaxChunks * WordsPerChunk - 1) :
       ((\E ok \in BOOLEAN : SeekToWord(g, ok))
        /\ ~Loaded(TargetChunkIndex(chunks, g)))
       => UNCHANGED <<playbackState, currentChunkIndex, currentWordIndex, audio,
                      chunks, pending, audioUrlsRef>>]_vars

C5_Witness ==
  /\ last.op = "seekToWord"
  /\ ~Loaded(TargetChunkIndex(chunks, last.arg))
  /\ TargetChunkIndex(chunks, last.arg) # currentChunkIndex
  /\ playbackState = "playing"

\* C6: seekToWord(g) for a word whose chunk c has loaded audio sets
\* currentChunkIndex = c and currentWordIndex = g, puts the output at the
\* startTime of the word in the clip of chunk c, and leaves the state
\* playing with the output running (the device accepting).
C6_SeekLoaded ==
  [][\A g \in 0..(MaxChunks * WordsPerChunk - 1) :
       (SeekToWord(g, TRUE) /\ Loaded(TargetChunkIndex(chunks, g)))
       => LET c == TargetChunkIndex(chunks, g) IN
          /\ currentChunkIndex' = c
          /\ currentWordIndex' = g
          /\ playbackState' = "playing"
          /\ audio'.src = RefOrChunkUrl(Cur, c)
          /\ ~audio'.paused
          /\ audio'.currentTime = WordTimeInChunk(chunks, g)]_vars

\* C7: play() with a ready audio handle of the current chunk goes to playing
\* and starts the output at the time of currentWordIndex; after pause() it
\* continues from the position of the pause.
C7_PlayResumes ==
  [][(Play(TRUE) /\ Loaded(currentChunkIndex))
     => (/\ playbackState' = "playing"
         /\ ~audio'.paused
         /\ audio'.currentTime = WordTimeInChunk(chunks, currentWordIndex)
         /\ (last.op = "pause" => audio'.currentTime = audio.currentTime))]_vars
\* the handling of a completion asks the device to start the output
PlayRequested(r1) == Finish(Cur, r1, FALSE, TRUE) # Finish(Cur, r1, FALSE, FALSE)

\* C8: whenever the device rejects a start of playback (in play(), at a
\* chunk boundary, after a seek or in the load-and-play effect), the state
\* ends paused, never playing.
C8_RejectedPlayPauses ==
  [][(\/ Play(FALSE)
      \/ Ended(FALSE)
      \/ \E g \in 0..(MaxChunks * WordsPerChunk - 1) : SeekToWord(g, FALSE)
      \/ \E op \in pending, outcome \in {"error", "audio", "aligned"} :
           LoadDone(op, outcome, FALSE) /\ PlayRequested(loadChunkDone(Cur, op, outcome))
      \/ \E op \in pending, readable \in BOOLEAN :
           BlobDone(op, FALSE, readable)
             /\ PlayRequested(analyzeStart(Cur, op, readable))
      \/ \E op \in pending, wordTimings \in AnalysisTables \cup {<<>>},
             writable \in BOOLEAN :
           AnalysisDone(op, wordTimings, FALSE, writable)
             /\ PlayRequested(analyzeDone(Cur, op, wordTimings, writable)))
     => playbackState' = "paused"]_vars

C8_Witness ==
  /\ last.op = "audio" /\ ~last.ok /\ last.from = "loading"
  /\ playbackState = "paused"
  /\ audio.src # NoUrl /\ audio.paused

\* C9: play() on a current chunk without audio that is not loading goes to
\* loading and issues a synthesis request with auto-play; when the request
\* succeeds while the state is still loading and the device accepts, the
\* state becomes playing and the output runs.
C9_PlayLoadsThenPlays ==
  [][/\ (/\ \E ok \in BOOLEAN : Play(ok)
         /\ currentChunkIndex \in DOMAIN chunks
         /\ ~Loaded(currentChunkIndex)
         /\ ~chunks[currentChunkIndex].isLoading)
        => /\ playbackState' = "loading"
           /\ \E op \in pending' \ pending :
                /\ op.chunkIndex = currentChunkIndex
                /\ op.shouldAutoPlay /\ op.phase = "tts"
     /\ \A op \in pending :
          (/\ op.shouldAutoPlay
           /\ playbackState = "loading"
           /\ LoadDone(op, "audio", TRUE) \/ LoadDone(op, "aligned", TRUE))
          => (playbackState' = "playing" /\ ~audio'.paused)]_vars

\* C10: pause() in state playing or loading sets the state to paused and
\* keeps currentChunkIndex, currentWordIndex and the output position.
C10_PauseKeepsPosition ==
  [][(Pause /\ playbackState \in {"playing", "loading"})
     => (/\ playbackState' = "paused"
         /\ audio'.paused
         /\ currentChunkIndex' = currentChunkIndex
         /\ currentWordIndex' = currentWordIndex
         /\ audio'.currentTime = audio.currentTime
         /\ audio'.startAt = audio.startAt
         /\ audio'.src = audio.src)]_vars

C10_Witness ==
  /\ last.op = "pause" /\ last.from = "playing"
  /\ playbackState = "paused"
  /\ audio.currentTime > 0 /\ audio.currentTime < AudioLen
\* C11: setSpeed(m) leaves playbackState as it is, and from then on every
\* output that runs (the current one, and one started later by a chunk
\* boundary, a play() or a seek) runs at rate m.
C11_SpeedApplies ==
  [][/\ \A speed \in Speeds : SetSpeed(speed) => playbackState' = playbackState
     /\ ~audio'.paused => audio'.playbackRate = playbackSpeed']_vars
\* the synthesis requests in flight for chunk i
InFlight(ops, i) == {op \in ops : op.phase = "tts" /\ op.chunkIndex = i}

\* C12: at most one synthesis request per chunk is in flight at any time,
\* and a play() on a chunk that is loaded or has a request in flight issues
\* no request.
C12_OneRequestPerChunk ==
  [][/\ \A i \in 0..(MaxChunks - 1) : Cardinality(InFlight(pending', i)) <= 1
     /\ (/\ \E ok \in BOOLEAN : PlayWithin(MaxLoads + 1, ok)
         /\ \/ Loaded(currentChunkIndex)
            \/ InFlight(pending, currentChunkIndex) # {})
        => InFlight(pending', currentChunkIndex) \subseteq pending]_vars
C14_FailedPlayLoadPauses ==
  [][\A op \in pending, outcome \in {"error", "aligned"} :
       (/\ op.shouldAutoPlay
        /\ playbackState = "loading"
        /\ \E ok \in BOOLEAN : LoadDone(op, outcome, ok))
       => (playbackState' = "paused" /\ chunks'[op.chunkIndex].error)]_vars
\* the texts of the chunks of an array
TextOf(cs) == [i \in DOMAIN cs |-> cs[i].text]

\* C15: after a change of the text or of the provider no chunk of the new
\* list has an audio handle, in state or in audioUrlsRef, also when the list
\* is as long as the old one; and a request issued for another text or
\* provider that completes later neither brings back the old chunks nor
\* stores its URL.
C15_ReplacedWholesale ==
  [][/\ (\/ \E n \in 1..MaxChunks : HandleTextReplace(n)
         \/ \E p \in Providers : HandleProviderSwitch(p))
        => \A i \in DOMAIN chunks' :
             chunks'[i].audioUrl = NoUrl /\ audioUrlsRef'[i] = NoUrl
     /\ \A op \in pending, outcome \in {"error", "audio", "aligned"} :
          (/\ \E ok \in BOOLEAN : LoadDone(op, outcome, ok)
           /\ \/ TextOf(op.cl.chunks) # TextOf(chunks)
              \/ op.cl.provider # provider)
          => (TextOf(chunks') = TextOf(chunks) /\ audioUrlsRef' = audioUrlsRef)]_vars

\* ---- the words of a text, read off its characters
\* a word is a maximal run of characters that are not whitespace
WordStarts(text) ==
  {i \in 1..Len(text) : ~IsSpace(text[i]) /\ (i = 1 \/ IsSpace(text[i - 1]))}

WordCount(text) == Cardinality(WordStarts(text))

WordEnd(text, i) ==
  CHOOSE j \in i..Len(text) :
    /\ \A k \in i..j : ~IsSpace(text[k])
    /\ j = Len(text) \/ IsSpace(text[j + 1])

\* the position of the k-th word
WordStart(text, k) ==
  CHOOSE i \in WordStarts(text) :
    Cardinality({j \in WordStarts(text) : j < i}) = k - 1

WordSequence(text) ==
  [k \in 1..WordCount(text) |->
     SubSeq(text, WordStart(text, k), WordEnd(text, WordStart(text, k)))]

\* the words of a chunk list in chunk order, then word order
RECURSIVE AllWords(_)
AllWords(cs) == IF cs = <<>> THEN <<>> ELSE Head(cs).words \o AllWords(Tail(cs))

Chunked == call.fn = "chunkText" /\ call.done

\* C16: for every text and every wordsPerChunk >= 1 the global indices of
\* the words of chunkText(text, wordsPerChunk), read in chunk order then word
\* order, are exactly 0, 1, ..., N-1, N being the number of whitespace-
\* delimited words of the text, and the word texts are the text's words.
C16_IndicesCoverWords ==
  Chunked =>
    LET ws == AllWords(call.result) IN
    /\ Len(ws) = WordCount(call.text)
    /\ \A k \in 1..Len(ws) : ws[k].index = k - 1
    /\ [k \in 1..Len(ws) |-> ws[k].text] = WordSequence(call.text)

\* C17: chunkText returns an empty chunk list when the text is empty or
\* whitespace only, otherwise ignores leading and trailing whitespace, and
\* returns exactly one chunk holding all words when wordsPerChunk is at
\* least the number of words.
C17_EdgeInputs ==
  Chunked =>
    LET n == WordCount(call.text) IN
    /\ n = 0 => call.result = <<>>
    /\ n > 0 => /\ call.result = chunkTextOf(trim(call.text), call.wordsPerChunk)
                /\ \A w \in 1..Len(AllWords(call.result)) :
                     \A c \in 1..Len(AllWords(call.result)[w].text) :
                       ~IsSpace(AllWords(call.result)[w].text[c])
    /\ (n > 0 /\ call.wordsPerChunk >= n) =>
         /\ Len(call.result) = 1
         /\ Len(call.result[1].words) = n

HelloChunked == Chunked /\ call.text = HelloText /\ call.wordsPerChunk = 10

\* the weights, in tenths, of the first two words of the chunked text
HelloWeight == getWordWeight(call.result[1].words[1].text)

WorldWeight == getWordWeight(call.result[1].words[2].text)

HelloShape ==
  /\ Len(call.result) = 1
  /\ Len(call.result[1].words) = 4
  /\ \A k \in 1..4 : call.result[1].words[k].index = k - 1
  /\ call.result[1].words[1].text = <<"H","e","l","l","o">>
  /\ call.result[1].words[2].text = <<"w","o","r","l","d",".">>

\* C18: for "Hello world. Goodbye now." with wordsPerChunk = 10 chunkText
\* returns one chunk of 4 words with global indices 0, 1, 2, 3, and the
\* weight of "world." exceeds the weight of "Hello" by exactly 2.0: the pause
\* of 3.0 after the full stop less the second syllable of "Hello".
C18_HelloWorld ==
  HelloChunked => (HelloShape /\ WorldWeight - HelloWeight = 20)

\* C18 as stated: the weight of "world." exceeds that of "Hello" by at
\* least 3.0.
C18_AsStated ==
  HelloChunked => (HelloShape /\ WorldWeight - HelloWeight >= 30)

C18_Witness == HelloChunked /\ HelloWeight = 25 /\ WorldWeight = 45

Timestamped == call.fn = "generateWordTimestamps" /\ call.done

\* one span per word, in the same order and with the same text, the first
\* starting at 0 and each starting where the one before it ends
SpansInOrder ==
  /\ Len(call.result) = Len(call.words)
  /\ \A k \in 1..Len(call.result) : call.result[k].text = call.words[k]
  /\ call.result[1].startTime = Zero
  /\ \A k \in 1..(Len(call.result) - 1) :
       call.result[k + 1].startTime = call.result[k].endTime

\* C19: for every non-empty word list and every duration > 0,
\* generateWordTimestamps returns one span per word in the same order and
\* with the same text, the first starting at 0, each starting where the one
\* before it ends, and the last ending at the duration.
C19_SpansCoverDuration ==
  Timestamped =>
    (SpansInOrder /\ call.result[Len(call.result)].endTime = call.duration)

Converted == call.fn = "convertCharacterTimingsToWords" /\ call.done

\* the characters of s that are not whitespace, without their case
Letters(s) == toLowerCase(SelectSeq(s, LAMBDA c : ~IsSpace(c)))

\* the text holds a word and its characters are those of the provider
AllMatch ==
  /\ WordCount(call.text) > 0
  /\ Letters(call.text) = Letters(call.alignment.characters)

\* the position in cs of its r-th character that is not whitespace
NthLetter(cs, r) ==
  CHOOSE i \in 1..Len(cs) :
    /\ ~IsSpace(cs[i])
    /\ Cardinality({j \in 1..(i - 1) : ~IsSpace(cs[j])}) = r - 1

\* the positions, in the provider's list, of the characters of the k-th word
OwnChars(k) ==
  LET s == WordStart(call.text, k)
      before == Cardinality({j \in 1..(s - 1) : ~IsSpace(call.text[j])})
      len == WordEnd(call.text, s) - s + 1
  IN  {NthLetter(call.alignment.characters, r) : r \in (before + 1)..(before + len)}

MinOf(S) == CHOOSE x \in S : \A y \in S : FLeq(x, y)

MaxOf(S) == CHOOSE x \in S : \A y \in S : FLeq(y, x)

\* C20: when all characters of the text match the provider's character
\* list, every word's span is [min start, max end] of its own characters
\* with confidence 1.0; with timings spread evenly over the characters this
\* is exactly the boundary pair the timings of the word were generated from.
C20_RoundTrip ==
  (Converted /\ AllMatch) =>
    /\ Len(call.result) = WordCount(call.text)
    /\ \A k \in 1..Len(call.result) :
         LET a == call.alignment
             own == OwnChars(k)
             first == CHOOSE i \in own : \A j \in own : i <= j
             final == CHOOSE i \in own : \A j \in own : j <= i
         IN  /\ call.result[k].text = WordSequence(call.text)[k]
             /\ call.result[k].confidence = 10
             /\ call.result[k].start =
                  MinOf({a.characterStartTimesSeconds[i] : i \in own})
             /\ call.result[k].end =
                  MaxOf({a.characterEndTimesSeconds[i] : i \in own})
             /\ a.even =>
                  /\ call.result[k].start =
                       Slot(first - 1, Len(a.characters), a.duration)
                  /\ call.result[k].end =
                       Slot(final, Len(a.characters), a.duration)

\* two words in another case than the provider's, timings spread evenly
C20_Witness ==
  /\ Converted /\ AllMatch /\ call.alignment.even
  /\ WordCount(call.text) = 2
  /\ call.text # call.alignment.characters
  /\ call.result[2].confidence = 10

Aligned == call.fn = "alignSegmentsToWords" /\ call.done

\* C21: alignSegmentsToWords with zero segments returns, for every word
\* list and total duration, the words of generateWordTimestamps(words,
\* totalDuration) with the same start and end times, each with confidence 0.5.
C21_NoSegmentsIsEstimate ==
  (Aligned /\ call.segments = <<>>) =>
    LET estimate == generateWordTimestamps(call.words, call.totalDuration) IN
    /\ Len(call.result) = Len(estimate)
    /\ \A k \in 1..Len(estimate) :
         /\ call.result[k].text = estimate[k].text
         /\ call.result[k].start = estimate[k].startTime
         /\ call.result[k].end = estimate[k].endTime
         /\ call.result[k].confidence = 5

C21_Witness ==
  /\ Aligned /\ call.segments = <<>> /\ Len(call.words) = MaxWords
  /\ call.result[MaxWords].confidence = 5
  /\ call.result[MaxWords].end # call.totalDuration

\* C22: after a put of v under k a get of k returns exactly v, a get of a
\* key never put returns null, neither call throws, and a storage failure
\* (no storage, storage full, item that does not parse) shows as a miss.
C22_PutThenGet ==
  /\ call.fn = "put" => ~call.escaped
  /\ call.fn = "get" =>
       LET p == call.puts[call.key] IN
       IF p.made /\ p.stored /\ call.available
       THEN call.result = [kind |-> "value", value |-> p.value]
       ELSE call.result.kind = "null"

\* the sources of queue q that sound at its current time
Sounding(q) == {s \in 1..Len(q.sources) : Audible(q, s)}

\* the sources that wait for a start time still to come
Waiting(q) ==
  {s \in 1..Len(q.sources) :
     q.sources[s].when > q.currentTime /\ ~q.sources[s].stopped}

\* C23: for any sequence of queueChunk calls, late ones and ones separated
\* by setPlaybackRate calls included, each buffer starts exactly when the
\* buffer queued before it ends: never two buffers sound at once, never is
\* there silence while a buffer waits for its start, and nextStartTime does
\* not decrease from one queueChunk or setPlaybackRate to the next.
C23_Gapless ==
  [][/\ Cardinality(Sounding(queue')) <= 1
     /\ Waiting(queue') # {} => Sounding(queue') # {}
     /\ queue'.stops = queue.stops => queue'.nextStartTime >= queue.nextStartTime]_vars

\* a buffer still to be played out: created, not cancelled, buffer left
Unfinished(q, s) == ~q.sources[s].stopped /\ q.sources[s].remaining > 0

\* C24: after setPlaybackRate(m) every scheduled buffer that is not yet
\* played out has playback rate m and no buffer whose completion has been
\* handled (nor one that stop cancelled) is touched; every buffer queued
\* later is created with the rate set last, which nothing else changes.
C24_RateRescales ==
  [][/\ \A m \in Rates :
          SetPlaybackRate(m) =>
            /\ queue'.playbackRate = m
            /\ Len(queue'.sources) = Len(queue.sources)
            /\ \A s \in 1..Len(queue.sources) :
                 /\ Unfinished(queue, s) =>
                      queue'.sources[s] = [queue.sources[s] EXCEPT !.rate = m]
                 /\ (queue.sources[s].ended \/ queue.sources[s].stopped) =>
                      queue'.sources[s] = queue.sources[s]
     /\ \A f \in queue.fetching :
          QueueChunkDecoded(f) =>
            queue'.sources[Len(queue'.sources)].rate = queue.playbackRate
     /\ queue'.playbackRate # queue.playbackRate =>
          \E m \in Rates : SetPlaybackRate(m)]_vars

\* a buffer played out at rate 1 and handled, and one rescaled to rate 2
\* after part of it was played at rate 1
C24_Witness ==
  \E s, t \in 1..Len(queue.sources) :
    /\ queue.sources[s].ended /\ queue.sources[s].remaining = 0
    /\ queue.sources[s].rate = 1
    /\ Unfinished(queue, t) /\ queue.sources[t].remaining % 2 = 1
    /\ queue.sources[t].rate = 2 /\ queue.playbackRate = 2

\* C25: after stop() no buffer is scheduled or sounds, nextStartTime is
\* reset so that the next buffer starts at the current time, and the queue
\* is not playing; a queueChunk whose fetch was in flight at the time of
\* stop() schedules nothing when it completes afterwards.
C25_StopCancels ==
  [][/\ QueueStop =>
          /\ Sounding(queue') = {} /\ Waiting(queue') = {}
          /\ queue'.scheduledSources = <<>>
          /\ queue'.nextStartTime = 0
          /\ ~queue'.isPlaying
     /\ \A f \in queue.fetching :
          QueueChunkDecoded(f) =>
            /\ queue.nextStartTime = 0 =>
                 queue'.sources[Len(queue'.sources)].when = queue.currentTime
            /\ f.stops < queue.stops =>
                 /\ Sounding(queue') \subseteq Sounding(queue)
                 /\ Waiting(queue') \subseteq Waiting(queue)]_vars

\* the operations of ops in the given phase
InPhase(ops, phase) == {op \in ops : op.phase = phase}

\* C26: the acoustic analysis of a chunk is started only while
\* playbackState is idle or paused; a load that completes while it is
\* playing or loading starts none, not even the fetch of the blob for it;
\* an analysis that ends while it is playing changes no timing.
C26_AnalysisOnlyIdleOrPaused ==
  [][/\ ~(InPhase(pending', "analysis") \subseteq
            {[op EXCEPT !.phase = "analysis"] : op \in InPhase(pending, "analysis")})
          => playbackState \in {"idle", "paused"}
     /\ (last'.op = "audio" /\ playbackState \in {"playing", "loading"})
          => InPhase(pending', "blob") \subseteq InPhase(pending, "blob")
     /\ (last'.op = "analysis" /\ playbackState = "playing")
          => \A i \in DOMAIN chunks \cap DOMAIN chunks' :
               Timing(chunks'[i]) = Timing(chunks[i])]_vars

\* the requests that the preload pass issues in a step
PreloadRequests(old, new) ==
  {op \in new : /\ op.id \notin {o.id : o \in old}
                /\ op.phase = "tts"
                /\ ~op.shouldAutoPlay}

\* the chunk that a request is for
ChunkOf(op) == op.cl.chunks[op.chunkIndex]

\* C27: the preload pass runs at most once per chunk list: it runs only
\* while idle, issues a request only for a chunk that is neither loaded nor
\* loading, and never issues a request for a chunk of a list for which a
\* request of an earlier pass is still in flight.
C27_PreloadOnce ==
  [][\A op \in PreloadRequests(pending, pending') :
       /\ playbackState' = "idle"
       /\ ChunkOf(op).audioUrl = NoUrl
       /\ \A other \in pending :
            ~(/\ other.id \in {o.id : o \in pending'}
              /\ other.phase = "tts"
              /\ other.chunkIndex = op.chunkIndex
              /\ ChunkOf(other).text = ChunkOf(op).text)]_vars

\* the timings of a table are those of the chunk's words, and its last end
\* is the chunk's duration
Applied(wordTimings, chunk) ==
  /\ \A j \in DOMAIN chunk.words \cap DOMAIN wordTimings :
       /\ chunk.words[j].startTime = wordTimings[j].start
       /\ chunk.words[j].endTime = wordTimings[j].end
  /\ chunk.duration = wordTimings[Length(wordTimings) - 1].end

\* the requests that are with the Acoustic Segmenter
Segmenting(ops) == {op.id : op \in InPhase(ops, "analysis")}

\* the store after a put under the key
Stored(store, key, results) ==
  [k \in DOMAIN store \cup {key} |-> IF k = key THEN results ELSE store[k]]

\* C28 (as stated): when the key of the chunk has a cached analysis its
\* timings are applied and the segmenter is not invoked; the segmenter is
\* invoked only after a miss, and its result is in the cache under the key
\* when it is applied.
C28_ReadThroughStored ==
  [][/\ \A op \in pending, ok \in BOOLEAN, readable \in BOOLEAN :
          (/\ BlobDone(op, ok, readable)
           /\ getAnalysisCacheKey(ChunkOf(op)) \in DOMAIN cache)
            => /\ Applied(cache[getAnalysisCacheKey(ChunkOf(op))],
                          chunks'[op.chunkIndex])
               /\ Segmenting(pending') \subseteq Segmenting(pending)
     /\ \A op \in pending, ok \in BOOLEAN, writable \in BOOLEAN,
           wordTimings \in AnalysisTables :
          AnalysisDone(op, wordTimings, ok, writable)
            => /\ getAnalysisCacheKey(ChunkOf(op)) \in DOMAIN cache'
               /\ cache'[getAnalysisCacheKey(ChunkOf(op))] = wordTimings
               /\ Applied(wordTimings, chunks'[op.chunkIndex])]_vars

\* C28 (amended): when the cache returns an analysis for the key of the
\* chunk, its timings are applied, the segmenter is not invoked and the
\* cache is left as it is; the segmenter is invoked only after the cache
\* returned nothing; its result is put under the key before it is applied,
\* and it is applied whether the storage took it or not.
C28_ReadThrough ==
  [][/\ \A op \in pending, ok \in BOOLEAN, readable \in BOOLEAN :
          BlobDone(op, ok, readable)
            => IF readable /\ getAnalysisCacheKey(ChunkOf(op)) \in DOMAIN cache
               THEN /\ Applied(cache[getAnalysisCacheKey(ChunkOf(op))],
                               chunks'[op.chunkIndex])
                    /\ Segmenting(pending') \subseteq Segmenting(pending)
                    /\ cache' = cache
               ELSE /\ Segmenting(pending') = Segmenting(pending) \cup {op.id}
                    /\ cache' = cache
     /\ ~(Segmenting(pending') \subseteq Segmenting(pending)) => last'.op = "blob"
     /\ \A op \in pending, ok \in BOOLEAN, writable \in BOOLEAN,
           wordTimings \in AnalysisTables :
          AnalysisDone(op, wordTimings, ok, writable)
            => /\ cache' = IF writable
                           THEN Stored(cache, getAnalysisCacheKey(ChunkOf(op)),
                                       wordTimings)
                           ELSE cache
               /\ Applied(wordTimings, chunks'[op.chunkIndex])]_vars

\* a cached analysis has been applied to a chunk without a segmenter run
C28_Witness ==
  /\ last.op = "blob"
  /\ last.arg \in DOMAIN chunks
  /\ getAnalysisCacheKey(chunks[last.arg]) \in DOMAIN cache
  /\ Applied(cache[getAnalysisCacheKey(chunks[last.arg])], chunks[last.arg])
  /\ \A op \in InPhase(pending, "analysis") : op.chunkIndex # last.arg
\* the words of two chunks agree in number, order, text and global index
SameWords(c, d) ==
  /\ DOMAIN d.words = DOMAIN c.words
  /\ \A j \in DOMAIN c.words :
       /\ d.words[j].text = c.words[j].text
       /\ d.words[j].index = c.words[j].index

\* the two chunks differ at most in the times of their words and in the
\* duration
SameButTiming(c, d) ==
  /\ SameWords(c, d)
  /\ [d EXCEPT !.words = c.words, !.duration = c.duration, !.oid = c.oid] = c

\* C29: a step in which acoustic or cached timings are applied to a chunk
\* (updateChunkTimings) keeps the number, order, text and global index of
\* the words of every chunk and changes nothing but startTime, endTime and
\* the duration.
C29_RefinementFrame ==
  [][last'.op \in {"blob", "analysis"}
       => /\ DOMAIN chunks' = DOMAIN chunks
          /\ \A i \in DOMAIN chunks : SameButTiming(chunks[i], chunks'[i])]_vars
\* C30: every chunk that the chunker has timed has a duration equal to the
\* endTime of its last word, and its words are sorted by their global index.
C30_DurationIsLastEnd ==
  (call.fn = "chunkText" /\ call.done) =>
    \A k \in 1..Len(call.result) :
      LET chunk == call.result[k] IN
        /\ Len(chunk.words) > 0
        /\ chunk.duration = chunk.words[Len(chunk.words)].endTime
        /\ \A i, j \in 1..Len(chunk.words) :
             i < j => chunk.words[i].index < chunk.words[j].index
\* the words of the text of the call: those between its whitespace, and the
\* empty string alone when there is none
ConvertWords ==
  IF WordCount(call.text) = 0 THEN << <<>> >> ELSE WordSequence(call.text)

\* the number of the provider's characters that are not whitespace
LetterCount(cs) == Cardinality({i \in 1..Len(cs) : ~IsSpace(cs[i])})

\* the cursor at the k-th word: the lengths of the words before it
RECURSIVE CursorAt(_, _)
CursorAt(words, k) ==
  IF k <= 1 THEN 0 ELSE CursorAt(words, k - 1) + Len(words[k - 1])

\* the characters of the k-th word are the next provider characters that are
\* not whitespace
WordMatches(k) ==
  LET word == ConvertWords[k]
      cursor == CursorAt(ConvertWords, k)
      cs == call.alignment.characters
  IN  /\ Len(word) > 0
      /\ cursor + Len(word) <= LetterCount(cs)
      /\ \A i \in 1..Len(word) :
           Lower(cs[NthLetter(cs, cursor + i)]) = Lower(word[i])

C32_PerfectMatch ==
  (Aligned /\ Len(call.segments) = Len(call.words)) =>
    /\ Len(call.result) = Len(call.words)
    /\ \A k \in 1..Len(call.words) :
         call.result[k] = [text |-> call.words[k],
                           start |-> call.segments[k].start,
                           end |-> call.segments[k].end,
                           confidence |-> 10]

\* MaxWords words on MaxWords segments
C32_Witness ==
  /\ Aligned
  /\ Len(call.segments) = MaxWords /\ Len(call.words) = MaxWords
  /\ call.result[MaxWords].end = call.segments[MaxWords].end
  /\ call.result[MaxWords].confidence = 10

\* the positions of the segments of the call that start, or end, at time t
StartingAt(t) == {j \in 1..Len(call.segments) : call.segments[j].start = t}

EndingAt(t) == {j \in 1..Len(call.segments) : call.segments[j].end = t}

\* C33: alignSegmentsToWords with more segments than words, and at least
\* one word, returns one entry per word in word order; the segments are cut
\* into as many non-empty contiguous groups as there are words, which
\* together are all segments; the span of the i-th word runs from the start
\* of the first segment of the i-th group to the end of its last segment;
\* every confidence is 0.8.
C33_MergeCoversSegments ==
  (Aligned /\ Len(call.segments) > Len(call.words) /\ Len(call.words) >= 1) =>
    /\ Len(call.result) = Len(call.words)
    /\ \A i \in 1..Len(call.result) :
         /\ call.result[i].text = call.words[i]
         /\ call.result[i].confidence = 8
         /\ \E first \in StartingAt(call.result[i].start),
               final \in EndingAt(call.result[i].end) :
              /\ first <= final
              /\ i = 1 => first = 1
              /\ i > 1 => first - 1 \in EndingAt(call.result[i - 1].end)
              /\ i = Len(call.words) => final = Len(call.segments)
\* C34: alignSegmentsToWords with fewer segments than words, and at least
\* one segment, returns one entry per word in word order with confidence
\* 0.7; the words are cut into as many non-empty contiguous groups as there
\* are segments; the spans of a group start at the start of its segment,
\* follow each other without a gap and end at the end of its segment.
C34_SplitCoversWords ==
  (Aligned /\ 0 < Len(call.segments) /\ Len(call.segments) < Len(call.words)) =>
    /\ Len(call.result) = Len(call.words)
    /\ \A k \in 1..Len(call.result) :
         /\ call.result[k].text = call.words[k]
         /\ call.result[k].confidence = 7
         /\ k = 1 => 1 \in StartingAt(call.result[k].start)
         /\ k > 1 =>
              \/ call.result[k].start = call.result[k - 1].end
              \/ \E s \in StartingAt(call.result[k].start) :
                   s - 1 \in EndingAt(call.result[k - 1].end)
         /\ k = Len(call.result) =>
              Len(call.segments) \in EndingAt(call.result[k].end)
Weighed == call.fn = "getWordWeight" /\ call.done

\* the letters of the word of the call: the word without its punctuation
Letterings == SelectSeq(call.word, LAMBDA c : c \notin Punctuation)

\* the pause, in tenths, after the last character of the word of the call
PauseOf ==
  LET n == Len(call.word) IN
  IF n > 0 /\ call.word[n] \in {".", "!", "?"} THEN 30
  ELSE IF n > 0 /\ call.word[n] \in {";", ":"} THEN 20
  ELSE IF n > 0 /\ call.word[n] = "," THEN 15
  ELSE 0

\* syllables, pause, bonus for more than 10 letters, penalty for at most 2
TermsOf ==
  10 * countSyllables(Letterings) + PauseOf
    + (IF Len(Letterings) > 10 THEN 5 ELSE 0)
    - (IF Len(Letterings) <= 2 THEN 2 ELSE 0)

\* C35 (as stated): the weight is the syllable count of the word without
\* its punctuation, plus the pause of its trailing punctuation, plus 0.5
\* for more than 10 characters, minus 0.2 for at most 2, and never below 0.3.
C35_WeightAsStated ==
  Weighed =>
    /\ call.result = (IF TermsOf < 3 THEN 3 ELSE TermsOf)
    /\ call.result >= 3
    /\ Letterings # <<>> => countSyllables(Letterings) >= 1

\* C35 (amended): the weight is that sum plus a base of 0.5, the lengths
\* counted without the punctuation; it is never below 0.3.
C35_Weight ==
  Weighed =>
    /\ call.result = TermsOf + 5
    /\ call.result >= 3
    /\ Letterings # <<>> => countSyllables(Letterings) >= 1

\* "extraordinary," has 5 vowel groups (e, ao, i, a, y), a comma and 13
\* letters: 5 + 1.5 + 0.5 + 0.5
C35_Witness ==
  /\ Weighed
  /\ call.word = <<"e","x","t","r","a","o","r","d","i","n","a","r","y",",">>
  /\ call.result = 75
Detected == call.fn = "detectSpeechSegments" /\ call.done

\* C36: every segment that detectSpeechSegments returns lasts at least the
\* minimum segment duration, also the one that is open when the clip ends;
\* the segments are in time order and do not overlap; a clip without a
\* window above the threshold has no segment.
C36_SegmentsLongEnough ==
  Detected =>
    /\ \A k \in 1..Len(call.result) :
         call.result[k].end - call.result[k].start >= MIN_SEGMENT_DURATION
    /\ \A k \in 1..(Len(call.result) - 1) :
         call.result[k].end <= call.result[k + 1].start
    /\ (\A i \in 1..Len(call.rms) : call.rms[i] <= AMPLITUDE_THRESHOLD)
         => call.result = <<>>

LookedUp == call.fn = "getCurrentWordIndex" /\ call.done

\* the linear reference: the first word whose [startTime, endTime) holds the
\* time, otherwise the last word that starts at or before it, otherwise 0
LinearIndex(words, time) ==
  LET n == Length(words)
      holds == {k \in 0..(n - 1) :
                  time >= words[k].startTime /\ time < words[k].endTime}
      started == {k \in 0..(n - 1) : words[k].startTime <= time}
  IN  IF holds # {} THEN CHOOSE k \in holds : \A j \in holds : k <= j
      ELSE IF started # {} THEN CHOOSE k \in started : \A j \in started : j <= k
      ELSE 0

\* C37, the lookup: for words sorted by startTime and any clock time t the
\* binary search returns the index of the linear reference at t + 0.1 s.
C37_LookupIsLinear ==
  LookedUp =>
    call.result = LinearIndex(call.words, call.currentTime + LOOKAHEAD)

\* the global index of the word that a tick at time t looks up; NoWord when
\* the current chunk has no word
NoWord == 0 - 1

ActiveAt(t) ==
  IF currentChunkIndex \in DOMAIN chunks
     /\ Length(chunks[currentChunkIndex].words) > 0
  THEN LET words == chunks[currentChunkIndex].words
       IN  words[getCurrentWordIndex(words, t)].index
  ELSE NoWord

\* setCurrentWordIndex is called by a tick at time t
WritesAt(t) == ActiveAt(t) # NoWord /\ ActiveAt(t) # listener.currentWordIndex

\* C37: on a tick the controller writes currentWordIndex only when the
\* global index of the active word differs from the current value.
C37_WritesOnlyChanges ==
  [][\A t \in 1..MaxTick :
       TimeUpdate(t) /\ WritesAt(t) => ActiveAt(t) # currentWordIndex]_vars

\* what the controller records of a chunk's load: the audio handle, the
\* loading flag, the error, the duration and the word timings
LoadRecord(c) ==
  [audioUrl |-> c.audioUrl, isLoading |-> c.isLoading, error |-> c.error,
   duration |-> c.duration,
   timings |-> [j \in DOMAIN c.words |-> <<c.words[j].startTime, c.words[j].endTime>>]]

\* C38: the completion of the load of one chunk, with audio or with an
\* error, leaves the audio handle, loading flag, error, duration and word
\* timings of every other chunk as they were, in whatever order the loads
\* in flight complete.
C38_CompletionIsLocal ==
  [][last'.op \in {"error", "audio", "aligned"}
       => /\ DOMAIN chunks' = DOMAIN chunks
          /\ \A i \in DOMAIN chunks :
               i # last'.arg => LoadRecord(chunks'[i]) = LoadRecord(chunks[i])]_vars

\* C39: a pause() issued while the state is 'loading' is not overridden:
\* when the pending load of the current chunk then completes, the state
\* stays 'paused' and the playback does not start.
C39_PauseHoldsThroughLoad ==
  [][(/\ last.op = "pause" /\ last.from = "loading"
      /\ last'.op \in {"error", "audio", "aligned"}
      /\ last'.arg = currentChunkIndex)
       => playbackState' = "paused" /\ audio'.paused]_vars

\* C40: the buffers of the queue are scheduled on the shared clock in the
\* order of the queueChunk calls, however the fetch and decode steps of
\* calls in progress at the same time complete: the buffer of an earlier
\* call is scheduled before, and starts no later than, that of a later call.
C40_ScheduledInCallOrder ==
  \A a, b \in 1..Len(queue.sources) :
    queue.sources[a].call < queue.sources[b].call
      => a < b /\ queue.sources[a].when <= queue.sources[b].when

====
